---- MODULE Spec2Model ----
(***************************************************************************)
(* Model of the streetwise-score property scorer                           *)
(* (src/src/utils/scoringAlgorithm.ts).                                    *)
(*                                                                         *)
(* JavaScript numbers are modelled as exact rationals extended with NaN,   *)
(* +Infinity, -Infinity and the value undefined, so that the divisions by  *)
(* zero and the failed table lookups of the code produce what the code     *)
(* produces.  Binary rounding error of IEEE doubles is not modelled.       *)
(* An optional field of a TypeScript interface is a sequence of length 0   *)
(* (absent) or 1 (present).                                                *)
(***************************************************************************)
EXTENDS Integers, Sequences, FiniteSets, TLC

VARIABLES property, weights, result, calls, last, cardScore, shown,
          mounted, theme, open, storedTheme, rootDark, chosen, toggles,
          handler, requestUrl, FIRECRAWL_API_KEY, OPENAI_API_KEY, listing, html, ran, response,
          url, isLoading, inFlight, formData, showUrlInput, extracted, toast, requests,
          currentProperty, currentScores, isCalculating, showResults, timers, submissions

vars == <<property, weights, result, calls, last, cardScore, shown,
          mounted, theme, open, storedTheme, rootDark, chosen, toggles,
          handler, requestUrl, FIRECRAWL_API_KEY, OPENAI_API_KEY, listing, html, ran, response,
          url, isLoading, inFlight, formData, showUrlInput, extracted, toast, requests,
          currentProperty, currentScores, isCalculating, showResults, timers, submissions>>

\* the arguments and the result of the scorer
scorerVars == <<property, weights, result, calls>>

\* the argument and the results of the presentation helpers
helperVars == <<cardScore, shown>>

\* the header's state, localStorage's theme item, the document root's dark
\* class, the value the last toggle chose and the number of toggles
headerVars == <<mounted, theme, open, storedTheme, rootDark, chosen, toggles>>

\* the scrape function: the handler's position, the url of the request, the
\* two keys of the environment, the listing page, the HTML obtained, the
\* stages run and the response
scraperVars == <<handler, requestUrl, FIRECRAWL_API_KEY, OPENAI_API_KEY, listing, html, ran, response>>

\* UrlInput and the form behind it: the URL typed, the loading flag, the
\* scrape requests in flight, the form's data (None while it holds its
\* defaults), whether the URL input is shown, the calls of onDataExtracted,
\* the last toast and the number of submits
urlVars == <<url, isLoading, inFlight, formData, showUrlInput, extracted, toast, requests>>

\* the Index page: its four states, the pending 1500 ms timers (each with
\* the property of its submission) and the number of submissions
pageVars == <<currentProperty, currentScores, isCalculating, showResults, timers, submissions>>

----------------------------------------------------------------------------
(* JavaScript number arithmetic                                            *)

Abs(i) == IF i < 0 THEN -i ELSE i

RECURSIVE GCD(_, _)
GCD(a, b) == IF b = 0 THEN a ELSE GCD(b, a % b)

\* the rational n/d (d > 0) in lowest terms
Rat(n, d) == LET g == GCD(Abs(n), d) IN [k |-> "fin", n |-> n \div g, d |-> d \div g]

Num(i) == [k |-> "fin", n |-> i, d |-> 1]

NaN == [k |-> "nan", n |-> 0, d |-> 1]

PosInf == [k |-> "inf", n |-> 1, d |-> 1]

NegInf == [k |-> "inf", n |-> -1, d |-> 1]

Undefined == [k |-> "undef", n |-> 0, d |-> 1]

\* a function or object value, such as a property inherited from
\* Object.prototype
ObjectValue == [k |-> "obj", n |-> 0, d |-> 1]

\* ToNumber of undefined, of a function and of a plain object is NaN
ToNumber(x) == IF x.k \in {"undef", "obj"} THEN NaN ELSE x

IsFinite(x) == x.k = "fin"

Sign(x) == IF x.n > 0 THEN 1 ELSE IF x.n < 0 THEN -1 ELSE 0

Inf(s) == IF s < 0 THEN NegInf ELSE PosInf

Neg(x) == [x EXCEPT !.n = -x.n]

Add(a, b) ==
  LET x == ToNumber(a)
      y == ToNumber(b)
  IN  IF x.k = "nan" \/ y.k = "nan" THEN NaN
      ELSE IF x.k = "inf" /\ y.k = "inf" THEN (IF x.n = y.n THEN x ELSE NaN)
      ELSE IF x.k = "inf" THEN x
      ELSE IF y.k = "inf" THEN y
      ELSE LET g == GCD(x.d, y.d)
           IN  Rat(x.n * (y.d \div g) + y.n * (x.d \div g), (x.d \div g) * y.d)

Sub(a, b) == Add(a, Neg(ToNumber(b)))

Mul(a, b) ==
  LET x == ToNumber(a)
      y == ToNumber(b)
  IN  IF x.k = "nan" \/ y.k = "nan" THEN NaN
      ELSE IF x.k = "inf" \/ y.k = "inf"
           THEN (IF Sign(x) = 0 \/ Sign(y) = 0 THEN NaN ELSE Inf(Sign(x) * Sign(y)))
      ELSE LET g1 == GCD(Abs(x.n), y.d)
               g2 == GCD(Abs(y.n), x.d)
           IN  Rat((x.n \div g1) * (y.n \div g2), (x.d \div g2) * (y.d \div g1))

\* x / y; the operands of the code are never negative zero
Div(a, b) ==
  LET x == ToNumber(a)
      y == ToNumber(b)
  IN  IF x.k = "nan" \/ y.k = "nan" THEN NaN
      ELSE IF x.k = "inf" /\ y.k = "inf" THEN NaN
      ELSE IF x.k = "inf" THEN Inf(IF Sign(y) < 0 THEN -Sign(x) ELSE Sign(x))
      ELSE IF y.k = "inf" THEN Num(0)
      ELSE IF y.n = 0 THEN (IF x.n = 0 THEN NaN ELSE Inf(Sign(x)))
      ELSE Mul(x, IF y.n < 0 THEN Rat(-y.d, -y.n) ELSE Rat(y.d, y.n))

\* x < y; every comparison with NaN is false
Lt(a, b) ==
  LET x == ToNumber(a)
      y == ToNumber(b)
  IN  IF x.k = "nan" \/ y.k = "nan" THEN FALSE
      ELSE IF x.k = "inf" THEN x.n < 0 /\ y # x
      ELSE IF y.k = "inf" THEN y.n > 0
      ELSE x.n * y.d < y.n * x.d

Gt(a, b) == Lt(b, a)

Le(a, b) == ToNumber(a).k # "nan" /\ ToNumber(b).k # "nan" /\ ~Lt(b, a)

\* Math.max and Math.min return NaN when an argument is NaN
MathMax(a, b) ==
  LET x == ToNumber(a)
      y == ToNumber(b)
  IN  IF x.k = "nan" \/ y.k = "nan" THEN NaN ELSE IF Lt(x, y) THEN y ELSE x

MathMin(a, b) ==
  LET x == ToNumber(a)
      y == ToNumber(b)
  IN  IF x.k = "nan" \/ y.k = "nan" THEN NaN ELSE IF Lt(y, x) THEN y ELSE x

\* Math.round: the nearest integer, ties towards +Infinity
MathRound(a) ==
  LET x == ToNumber(a)
  IN  IF x.k # "fin" THEN x ELSE Num((2 * x.n + x.d) \div (2 * x.d))

\* Math.round(x * 10) / 10
Round1(x) == Div(MathRound(Mul(x, Num(10))), Num(10))

----------------------------------------------------------------------------
(* Optional fields                                                         *)

None == <<>>

Some(v) == <<v>>

Present(o) == o # <<>>

\* truthiness of an optional number: present and not 0
TruthyNum(o) == o # <<>> /\ o[1] # 0

\* o || dflt for an optional number
OrNum(o, dflt) == IF TruthyNum(o) THEN o[1] ELSE dflt

\* truthiness of an optional string or boolean-free enum: present and not ''
TruthyStr(o) == o # <<>> /\ o[1] # ""

\* truthiness of an optional JavaScript number held as a rational
TruthyRat(o) == o # <<>> /\ o[1].k = "fin" /\ o[1].n # 0

\* names that every object literal inherits from Object.prototype
ObjectPrototypeKeys ==
  {"constructor", "toString", "toLocaleString", "valueOf", "hasOwnProperty",
   "isPrototypeOf", "propertyIsEnumerable", "__proto__"}

\* table[key] for a table written as an object literal: the own property, else
\* the inherited one, else undefined
Lookup(table, key) ==
  IF key \in DOMAIN table THEN table[key]
  ELSE IF key \in ObjectPrototypeKeys THEN ObjectValue
  ELSE Undefined

\* x || dflt for a looked-up number: undefined, NaN and 0 are falsy
OrValue(x, dflt) == IF x.k \in {"undef", "nan"} \/ (x.k = "fin" /\ x.n = 0) THEN dflt ELSE x

----------------------------------------------------------------------------
(* Lookup tables and weights                                               *)

WeightNames ==
  {"priceValue", "location", "schools", "building", "amenities", "neighborhood",
   "marketContext", "lifestyle"}

DEFAULT_WEIGHTS ==
  [priceValue |-> Rat(25, 100), location |-> Rat(20, 100), schools |-> Rat(15, 100),
   building |-> Rat(15, 100), amenities |-> Rat(8, 100), neighborhood |-> Rat(10, 100),
   marketContext |-> Rat(4, 100), lifestyle |-> Rat(3, 100)]

SCHOOL_DISTRICT_SCORES ==
  [x \in {"District 1", "District 2", "District 3", "District 15", "District 20",
          "District 22", "Stuyvesant HS Zone", "Bronx Science Zone",
          "Brooklyn Tech Zone", "Other"} |->
     CASE x = "District 1" -> Num(9)
       [] x = "District 2" -> Num(8)
       [] x = "District 3" -> Num(7)
       [] x = "District 15" -> Num(8)
       [] x = "District 20" -> Num(6)
       [] x = "District 22" -> Num(5)
       [] x = "Stuyvesant HS Zone" -> Num(10)
       [] x = "Bronx Science Zone" -> Num(9)
       [] x = "Brooklyn Tech Zone" -> Num(8)
       [] OTHER -> Num(5)]

BUILDING_TYPE_SCORES ==
  [x \in {"prewar", "postwar", "modern", "luxury", "historic", "other"} |->
     CASE x = "prewar" -> Rat(85, 10)
       [] x = "postwar" -> Rat(65, 10)
       [] x = "modern" -> Num(8)
       [] x = "luxury" -> Rat(95, 10)
       [] x = "historic" -> Num(8)
       [] OTHER -> Num(6)]

----------------------------------------------------------------------------
(* calculateEnhancedPriceValue                                             *)

pricePerSqFt(p) == Div(Num(p.price), Num(p.squareFeet))

expectedPriceRange == [min |-> 800, max |-> 2000]

\* priceScore with the sign of the slope inverted
priceScore_Inverted(p) ==
  MathMax(Num(1), MathMin(Num(10),
    Add(Num(1),
        Mul(Div(Sub(pricePerSqFt(p), Num(expectedPriceRange.min)),
                Num(expectedPriceRange.max - expectedPriceRange.min)),
            Num(8)))))

\* price score: lower price per square foot is better
priceScore(p) ==
  MathMax(Num(1), MathMin(Num(10),
    Sub(Num(10),
        Mul(Div(Sub(pricePerSqFt(p), Num(expectedPriceRange.min)),
                Num(expectedPriceRange.max - expectedPriceRange.min)),
            Num(8)))))

\* monthlyFeesScore with the divisor 300 of an earlier version of the scorer
monthlyFeesScore_Div300(p) ==
  MathMax(Num(1), MathMin(Num(10),
    Sub(Num(10), Div(Num(p.monthlyFees - 500), Num(300)))))

monthlyFeesScore(p) ==
  MathMax(Num(1), MathMin(Num(10),
    Sub(Num(10), Div(Num(p.monthlyFees - 500), Num(400)))))

marketTimeBonus(p) ==
  IF TruthyNum(p.daysOnMarket)
  THEN MathMin(Rat(3, 2), Add(Num(1), Div(Num(p.daysOnMarket[1] - 30), Num(100))))
  ELSE Num(1)

calculateEnhancedPriceValue(p) ==
  Mul(Div(Add(priceScore(p), monthlyFeesScore(p)), Num(2)), marketTimeBonus(p))

----------------------------------------------------------------------------
(* calculateEnhancedLocation                                               *)

parkProximity(p) ==
  IF TruthyNum(p.proximityToPark)
  THEN MathMax(Num(0), Sub(Num(10), Div(Num(p.proximityToPark[1]), Num(2))))
  ELSE Num(5)

subwayProximity(p) ==
  IF TruthyNum(p.proximityToSubway)
  THEN MathMax(Num(0), Sub(Num(10), Num(p.proximityToSubway[1])))
  ELSE Num(5)

calculateEnhancedLocation(p) ==
  LET walkScore == Num(OrNum(p.walkScore, 50))
      transitScore == Num(OrNum(p.transitScore, 50))
      bikeScore == Num(OrNum(p.bikeScore, 50))
      safetyScore == Num(OrNum(p.safetyScore, 6))
      combinedScore ==
        Div(Add(Add(Add(Add(Add(Mul(walkScore, Rat(3, 10)),
                                Mul(transitScore, Rat(3, 10))),
                            Mul(bikeScore, Rat(1, 10))),
                        Mul(parkProximity(p), Rat(1, 10))),
                    Mul(subwayProximity(p), Rat(1, 10))),
                Mul(safetyScore, Rat(1, 10))),
            Num(10))
  IN  MathMax(Num(1), MathMin(Num(10), combinedScore))

----------------------------------------------------------------------------
(* calculateEnhancedBuilding                                               *)

ageScore(p) ==
  MathMax(Num(1), MathMin(Num(10), Sub(Num(10), Div(Num(p.buildingAge), Num(15)))))

\* BUILDING_TYPE_SCORES[property.buildingType || 'other']
buildingTypeScore(p) ==
  Lookup(BUILDING_TYPE_SCORES, IF TruthyStr(p.buildingType) THEN p.buildingType[1] ELSE "other")

\* floorScore with a ratio of exactly 0.2 counted as a ground floor
floorScore_GroundAt20(p) ==
  LET floorRatio == Div(Num(p.floor), Num(p.totalFloors))
  IN  IF Le(floorRatio, Rat(2, 10)) THEN Rat(8, 10)
      ELSE IF Gt(floorRatio, Rat(8, 10)) THEN Rat(9, 10)
      ELSE Num(1)

floorScore(p) ==
  LET floorRatio == Div(Num(p.floor), Num(p.totalFloors))
  IN  IF Lt(floorRatio, Rat(2, 10)) THEN Rat(8, 10)
      ELSE IF Gt(floorRatio, Rat(8, 10)) THEN Rat(9, 10)
      ELSE Num(1)

calculateEnhancedBuilding(p) ==
  LET combinedScore ==
        Mul(Add(Mul(ageScore(p), Rat(1, 2)), Mul(buildingTypeScore(p), Rat(1, 2))),
            floorScore(p))
  IN  MathMax(Num(1), MathMin(Num(10), combinedScore))

----------------------------------------------------------------------------
(* calculateEnhancedAmenities                                              *)

premiumFeatures == {"Fireplace", "Private outdoor space", "Washer/dryer", "Central air"}

\* calculateEnhancedAmenities with the base capped at 10
calculateEnhancedAmenities_Base10(p) ==
  LET base == MathMin(Num(10), Num(Len(p.amenities) + 2))
      homeFeatures == IF Present(p.homeFeatures) THEN p.homeFeatures[1] ELSE <<>>
      homeFeaturesScore == Mul(Num(Len(homeFeatures)), Rat(1, 2))
      premiumCount ==
        Cardinality({i \in 1..Len(homeFeatures) : homeFeatures[i] \in premiumFeatures})
      premiumBonus == Mul(Num(premiumCount), Rat(3, 10))
      score == Add(base, Add(homeFeaturesScore, premiumBonus))
  IN  MathMax(Num(1), MathMin(Num(10), score))

calculateEnhancedAmenities(p) ==
  LET base == MathMin(Num(8), Num(Len(p.amenities) + 2))
      homeFeatures == IF Present(p.homeFeatures) THEN p.homeFeatures[1] ELSE <<>>
      homeFeaturesScore == Mul(Num(Len(homeFeatures)), Rat(1, 2))
      premiumCount ==
        Cardinality({i \in 1..Len(homeFeatures) : homeFeatures[i] \in premiumFeatures})
      premiumBonus == Mul(Num(premiumCount), Rat(3, 10))
      score == Add(base, Add(homeFeaturesScore, premiumBonus))
  IN  MathMax(Num(1), MathMin(Num(10), score))

----------------------------------------------------------------------------
(* calculateMarketContext                                                  *)

\* timeContext.toLowerCase() includes 'recent' or 'month', for the
\* timeContext strings of TimeContexts
mentionsRecentOrMonth(t) == t \in {"recent", "6 months"}

\* event.toLowerCase() includes 'price' and 'reduc', for the event names of
\* EventNames
isPriceReduction(e) == e \in {"Price Reduced"}

\* percentageChangeImpact with -10 in the +2.0 tier
percentageChangeImpact_AtMost10(details) ==
  IF Present(details.percentageChange)
  THEN LET pc == details.percentageChange[1]
       IN  IF pc <= -10 THEN Num(2)
           ELSE IF pc < -5 THEN Num(1)
           ELSE IF pc > 15 THEN Rat(-3, 2)
           ELSE IF pc > 5 THEN Rat(-1, 2)
           ELSE Num(0)
  ELSE Num(0)

percentageChangeImpact(details) ==
  IF Present(details.percentageChange)
  THEN LET pc == details.percentageChange[1]
       IN  IF pc < -10 THEN Num(2)
           ELSE IF pc < -5 THEN Num(1)
           ELSE IF pc > 15 THEN Rat(-3, 2)
           ELSE IF pc > 5 THEN Rat(-1, 2)
           ELSE Num(0)
  ELSE Num(0)

timeContextImpact(details) ==
  IF TruthyStr(details.timeContext) /\ mentionsRecentOrMonth(details.timeContext[1])
     /\ TruthyNum(details.percentageChange) /\ details.percentageChange[1] < 0
  THEN Rat(1, 2)
  ELSE Num(0)

eventsImpact(details) ==
  LET events == details.events
      eventCount == Len(events)
      recentEvents == SubSeq(events, IF eventCount > 2 THEN eventCount - 1 ELSE 1, eventCount)
      hasRecentPriceReduction ==
        \E i \in 1..Len(recentEvents) : isPriceReduction(recentEvents[i])
  IN  IF eventCount > 0
      THEN Add(IF eventCount > 3 THEN Rat(-1, 2)
               ELSE IF eventCount = 1 THEN Rat(3, 10)
               ELSE Num(0),
               IF hasRecentPriceReduction THEN Rat(8, 10) ELSE Num(0))
      ELSE Num(0)

historyBonus(p) ==
  LET key == IF TruthyStr(p.priceHistory) THEN p.priceHistory[1] ELSE "stable"
  IN  Lookup([x \in {"stable", "increased", "decreased"} |->
                CASE x = "stable" -> Num(0)
                  [] x = "increased" -> Rat(-1, 2)
                  [] OTHER -> Num(1)], key)

\* daysOnMarketFactor with the stale-listing threshold at 120 days
daysOnMarketFactor_Over120(p) ==
  IF TruthyNum(p.daysOnMarket)
  THEN IF p.daysOnMarket[1] > 120 THEN Rat(1, 2)
       ELSE IF p.daysOnMarket[1] < 7 THEN Rat(3, 10)
       ELSE Num(0)
  ELSE Num(0)

daysOnMarketFactor(p) ==
  IF TruthyNum(p.daysOnMarket)
  THEN IF p.daysOnMarket[1] > 90 THEN Rat(1, 2)
       ELSE IF p.daysOnMarket[1] < 7 THEN Rat(3, 10)
       ELSE Num(0)
  ELSE Num(0)

assessmentBonus(p) ==
  IF TruthyRat(p.assessmentRatio)
  THEN MathMax(Num(-2), MathMin(Num(2), Mul(Sub(Rat(8, 10), p.assessmentRatio[1]), Num(5))))
  ELSE Num(0)

\* calculateMarketContext with the simple-mode bonus added in both modes
calculateMarketContext_BonusAlways(p) ==
  LET baseline == Num(5)
      history ==
        IF Present(p.priceHistoryDetails)
        THEN LET details == p.priceHistoryDetails[1]
             IN  Add(Add(Add(Add(baseline, percentageChangeImpact(details)),
                             timeContextImpact(details)),
                         eventsImpact(details)),
                     historyBonus(p))
        ELSE Add(baseline, historyBonus(p))
      score == Add(Add(history, daysOnMarketFactor(p)), assessmentBonus(p))
  IN  MathMax(Num(1), MathMin(Num(10), score))

calculateMarketContext(p) ==
  LET baseline == Num(5)
      history ==
        IF Present(p.priceHistoryDetails)
        THEN LET details == p.priceHistoryDetails[1]
             IN  Add(Add(Add(baseline, percentageChangeImpact(details)),
                         timeContextImpact(details)),
                     eventsImpact(details))
        ELSE Add(baseline, historyBonus(p))
      score == Add(Add(history, daysOnMarketFactor(p)), assessmentBonus(p))
  IN  MathMax(Num(1), MathMin(Num(10), score))

----------------------------------------------------------------------------
(* calculateLifestyle                                                      *)

\* calculateLifestyle with the noise term's sign inverted
calculateLifestyle_NoiseInverted(p) ==
  LET noise ==
        IF TruthyNum(p.noiseLevel)
        THEN MathMax(Num(-3), Mul(Num(p.noiseLevel[1] - 5), Rat(8, 10)))
        ELSE Num(0)
      pet == IF p.petFriendly = Some(TRUE) THEN Num(1) ELSE Num(0)
  IN  MathMax(Num(1), MathMin(Num(10), Add(Add(Num(5), noise), pet)))

\* calculateLifestyle with the pet bonus given whenever petFriendly is set
calculateLifestyle_PetDefined(p) ==
  LET noise ==
        IF TruthyNum(p.noiseLevel)
        THEN MathMax(Num(-3), Mul(Num(5 - p.noiseLevel[1]), Rat(8, 10)))
        ELSE Num(0)
      pet == IF Present(p.petFriendly) THEN Num(1) ELSE Num(0)
  IN  MathMax(Num(1), MathMin(Num(10), Add(Add(Num(5), noise), pet)))

calculateLifestyle(p) ==
  LET noise ==
        IF TruthyNum(p.noiseLevel)
        THEN MathMax(Num(-3), Mul(Num(5 - p.noiseLevel[1]), Rat(8, 10)))
        ELSE Num(0)
      pet == IF p.petFriendly = Some(TRUE) THEN Num(1) ELSE Num(0)
  IN  MathMax(Num(1), MathMin(Num(10), Add(Add(Num(5), noise), pet)))

----------------------------------------------------------------------------
(* calculatePropertyScore                                                  *)

\* the eight sub-scores at full precision
subScores(p) ==
  [priceValue |-> calculateEnhancedPriceValue(p),
   location |-> calculateEnhancedLocation(p),
   schools |-> OrValue(Lookup(SCHOOL_DISTRICT_SCORES, p.schoolDistrict), Num(5)),
   building |-> calculateEnhancedBuilding(p),
   amenities |-> calculateEnhancedAmenities(p),
   neighborhood |-> MathMax(Num(1), MathMin(Num(10), Div(Num(OrNum(p.bikeScore, 50)), Num(10)))),
   marketContext |-> calculateMarketContext(p),
   lifestyle |-> calculateLifestyle(p)]

\* the weighted sum, in the order the code adds the terms
weightedSum(s, w) ==
  Add(Add(Add(Add(Add(Add(Add(Mul(s.priceValue, w.priceValue),
                              Mul(s.location, w.location)),
                          Mul(s.schools, w.schools)),
                      Mul(s.building, w.building)),
                  Mul(s.amenities, w.amenities)),
              Mul(s.neighborhood, w.neighborhood)),
          Mul(s.marketContext, w.marketContext)),
      Mul(s.lifestyle, w.lifestyle))

\* calculatePropertyScore with the sub-scores rounded before the weighted sum
calculatePropertyScore_RoundedSum(p, w) ==
  LET s == [f \in WeightNames |-> Round1(subScores(p)[f])]
      overall == MathRound(weightedSum(s, w))
  IN  [overall |-> MathMax(Num(1), MathMin(Num(10), overall)),
       priceValue |-> s.priceValue,
       location |-> s.location,
       schools |-> s.schools,
       building |-> s.building,
       amenities |-> s.amenities,
       neighborhood |-> s.neighborhood,
       marketContext |-> s.marketContext,
       lifestyle |-> s.lifestyle]

calculatePropertyScore(p, w) ==
  LET s == subScores(p)
      overall == MathRound(weightedSum(s, w))
  IN  [overall |-> MathMax(Num(1), MathMin(Num(10), overall)),
       priceValue |-> Round1(s.priceValue),
       location |-> Round1(s.location),
       schools |-> Round1(s.schools),
       building |-> Round1(s.building),
       amenities |-> Round1(s.amenities),
       neighborhood |-> Round1(s.neighborhood),
       marketContext |-> Round1(s.marketContext),
       lifestyle |-> Round1(s.lifestyle)]

----------------------------------------------------------------------------
(* getScoreColor, getScoreLabel                                            *)

\* x >= y; false when an operand is NaN
Ge(a, b) == Le(b, a)

getScoreColor(x) ==
  IF Ge(x, Num(8)) THEN "score-excellent"
  ELSE IF Ge(x, Rat(65, 10)) THEN "score-good"
  ELSE IF Ge(x, Num(5)) THEN "score-average"
  ELSE "score-poor"

\* getScoreLabel with the Good threshold at 7
getScoreLabel_Good7(x) ==
  IF Ge(x, Num(8)) THEN "Excellent"
  ELSE IF Ge(x, Num(7)) THEN "Good"
  ELSE IF Ge(x, Num(5)) THEN "Average"
  ELSE "Poor"

getScoreLabel(x) ==
  IF Ge(x, Num(8)) THEN "Excellent"
  ELSE IF Ge(x, Rat(65, 10)) THEN "Good"
  ELSE IF Ge(x, Num(5)) THEN "Average"
  ELSE "Poor"

----------------------------------------------------------------------------
(* Inputs                                                                  *)

\* the PropertyData of a filled form: the form's defaults
\* (PropertyForm.tsx:72-88) and Scenario A's price, area, fees and bedrooms;
\* address and bathrooms are not read by the scorer and are left out;
\* propertyTaxes is the form's annual-taxes field (PropertyForm.tsx:453-459),
\* which the submitted object carries
BaseProperty ==
  [price |-> 1250000, monthlyFees |-> 1200, floor |-> 5, totalFloors |-> 10,
   squareFeet |-> 1000, bedrooms |-> 2, schoolDistrict |-> "District 2",
   buildingAge |-> 30, amenities |-> <<"Doorman", "Elevator">>, homeFeatures |-> None,
   walkScore |-> Some(70), transitScore |-> Some(65), bikeScore |-> Some(60),
   buildingType |-> Some("other"), proximityToPark |-> None, proximityToSubway |-> None,
   safetyScore |-> Some(6), noiseLevel |-> Some(5), petFriendly |-> Some(FALSE),
   daysOnMarket |-> None, priceHistory |-> Some("stable"), priceHistoryDetails |-> None,
   assessmentRatio |-> None, propertyTaxes |-> None]

Prices == {0, 400000, 900000, 1250000, 2500000}

SquareFeets == {0, 500, 1000}

MonthlyFees == {500, 1200, 4500}

DaysOnMarkets == {None, Some(0), Some(1), Some(30), Some(80)}

Bedrooms == {0, 1, 2}

MinNoiseLevel == 1

MaxNoiseLevel == 10

NoiseLevels == {None} \cup {Some(n) : n \in MinNoiseLevel..MaxNoiseLevel}

PetFriendlies == {None, Some(TRUE), Some(FALSE)}

\* 'Other' is what the extraction layer emits for an unclassified building
BuildingTypes ==
  {None, Some("Other")} \cup {Some(t) : t \in DOMAIN BUILDING_TYPE_SCORES}

BuildingAges == {30, 150}

Floors == {<<1, 10>>, <<5, 10>>, <<10, 10>>, <<0, 0>>, <<1, 0>>}

PriceHistories == {None, Some("stable"), Some("increased"), Some("decreased")}

TimeContexts == {"recent", "6 months", "2 years"}

EventNames == {"Listed", "Price Reduced", "Sold"}

Details(pc, tc, ev) == [percentageChange |-> pc, timeContext |-> tc, events |-> ev]

PriceHistoryDetails ==
  {None, Some(Details(None, None, <<>>)),
   Some(Details(Some(-15), Some("recent"), <<"Listed", "Price Reduced">>)),
   Some(Details(Some(20), Some("2 years"), <<"Listed", "Sold", "Listed", "Sold">>))}
  \cup {Some(Details(Some(pc), None, <<>>)) : pc \in {-15, -10, -7, 0, 10, 20}}

PriceInputs ==
  {[BaseProperty EXCEPT !.price = p, !.squareFeet = s, !.monthlyFees = f, !.daysOnMarket = d] :
     p \in Prices, s \in SquareFeets, f \in MonthlyFees, d \in DaysOnMarkets}

NoAreaInputs ==
  {[BaseProperty EXCEPT !.price = p, !.squareFeet = 0, !.bedrooms = b] :
     p \in Prices, b \in Bedrooms}

LifestyleInputs ==
  {[BaseProperty EXCEPT !.noiseLevel = n, !.petFriendly = f] :
     n \in NoiseLevels, f \in PetFriendlies}

MarketInputs ==
  {[BaseProperty EXCEPT !.priceHistoryDetails = h, !.priceHistory = e, !.daysOnMarket = d] :
     h \in PriceHistoryDetails, e \in PriceHistories, d \in {None, Some(120)}}

BuildingInputs ==
  {[BaseProperty EXCEPT !.buildingType = t, !.buildingAge = a, !.floor = f[1],
                        !.totalFloors = f[2]] :
     t \in BuildingTypes, a \in BuildingAges, f \in Floors}

\* the form's choices and its initial '' (PropertyForm.tsx:16-19, 74), and
\* strings an extracted listing may carry
SchoolDistricts ==
  DOMAIN SCHOOL_DISTRICT_SCORES \cup {"", "District 99", "other", "constructor"}

SchoolInputs == {[BaseProperty EXCEPT !.schoolDistrict = d] : d \in SchoolDistricts}

\* walkScore and transitScore, 0-100 or absent
WalkTransits == {<<None, None>>, <<Some(0), Some(0)>>, <<Some(70), Some(65)>>,
                 <<Some(100), Some(100)>>}

BikeScores == {None, Some(0), Some(5), Some(60), Some(100)}

\* minutes to the nearest park and subway station
ParkMinutes == {None, Some(0), Some(4), Some(30)}

SubwayMinutes == {None, Some(0), Some(3), Some(15)}

SafetyScores == {None, Some(1), Some(10)}

LocationInputs ==
  {[BaseProperty EXCEPT !.walkScore = wt[1], !.transitScore = wt[2], !.bikeScore = b,
                        !.proximityToPark = pk, !.proximityToSubway = sb,
                        !.safetyScore = sf] :
     wt \in WalkTransits, b \in BikeScores, pk \in ParkMinutes, sb \in SubwayMinutes,
     sf \in SafetyScores}

\* days on market around the thresholds 7, 30, 80 and 90; the extraction
\* layer emits 0 when it finds none
ListingDays ==
  {None} \cup {Some(d) : d \in {0, 1, 6, 7, 29, 30, 31, 79, 80, 90, 91, 120, 365}}

DaysInputs ==
  {[BaseProperty EXCEPT !.daysOnMarket = d, !.priceHistoryDetails = h, !.priceHistory = e] :
     d \in ListingDays,
     h \in {None, Some(Details(None, None, <<>>)), Some(Details(Some(-15), None, <<>>))},
     e \in {Some("stable"), Some("decreased")}}

\* percentage changes around the thresholds -10, -5, 5 and 15
PercentageChanges ==
  {None} \cup {Some(pc) : pc \in {-15, -11, -10, -7, -5, -4, 0, 4, 5, 6, 10, 15, 16, 20}}

PercentInputs ==
  {[BaseProperty EXCEPT !.priceHistoryDetails = Some(Details(pc, tc, <<>>)),
                        !.priceHistory = e] :
     pc \in PercentageChanges, tc \in {None, Some("recent"), Some("2 years")},
     e \in {Some("stable"), Some("increased")}}

\* a building type of the table or none
TableBuildingTypes == {None} \cup {Some(t) : t \in DOMAIN BUILDING_TYPE_SCORES}

\* floor and totalFloors: ratios below, at and above 0.2 and 0.8, and
\* listings with no floor count
FloorPairs ==
  {<<1, 10>>, <<2, 10>>, <<1, 5>>, <<5, 10>>, <<4, 5>>, <<8, 10>>, <<9, 10>>, <<10, 10>>,
   <<0, 0>>, <<1, 0>>}

FloorInputs ==
  {[BaseProperty EXCEPT !.buildingType = t, !.buildingAge = a, !.floor = f[1],
                        !.totalFloors = f[2]] :
     t \in TableBuildingTypes, a \in {0, 30, 150}, f \in FloorPairs}

\* annual property taxes typed into the form, or none
PropertyTaxes == {None, Some(0), Some(6000), Some(12000)}

TaxInputs ==
  {[BaseProperty EXCEPT !.monthlyFees = f, !.propertyTaxes = t] :
     f \in {500, 1200, 1700, 4500}, t \in PropertyTaxes}

\* the first eight amenity names of the form's checkboxes
AmenityNames ==
  <<"Doorman", "Elevator", "Gym", "Pool", "Rooftop/Garden", "Laundry", "Storage",
    "Bike Room">>

\* the first n amenities, n = 0..8
AmenityLists == {SubSeq(AmenityNames, 1, n) : n \in 0..Len(AmenityNames)}

\* home features: absent, none, plain, premium, repeated, and enough to
\* reach the cap
HomeFeatureLists ==
  {None, Some(<<>>), Some(<<"Dishwasher">>), Some(<<"Fireplace">>),
   Some(<<"fireplace">>), Some(<<"Fireplace", "Fireplace">>),
   Some(<<"Dishwasher", "Washer/dryer", "Central air">>),
   Some(<<"Fireplace", "Private outdoor space", "Washer/dryer", "Central air">>)}

AmenityInputs ==
  {[BaseProperty EXCEPT !.amenities = a, !.homeFeatures = h] :
     a \in AmenityLists, h \in HomeFeatureLists}

Inputs == PriceInputs \cup NoAreaInputs \cup LifestyleInputs \cup MarketInputs \cup BuildingInputs

\* a weight set that does not sum to 1
HeavyWeights == [n \in WeightNames |-> Rat(1, 4)]

WeightSteps == {Rat(1, 4)}

\* number of calculatePropertyScore calls in one run
MaxCalls == 2

----------------------------------------------------------------------------
(* The scorer and its caller                                               *)

\* no score is shown
HelpersIdle ==
  /\ cardScore = None
  /\ shown = None

\* no header is on the page
HeaderIdle ==
  /\ mounted = "no"
  /\ theme = None
  /\ open = FALSE
  /\ storedTheme = None
  /\ rootDark = FALSE
  /\ chosen = None
  /\ toggles = 0

\* no request has reached the scrape function
ScraperIdle ==
  /\ handler = "idle"
  /\ requestUrl = None
  /\ FIRECRAWL_API_KEY = FALSE
  /\ OPENAI_API_KEY = FALSE
  /\ listing = None
  /\ html = None
  /\ ran = <<>>
  /\ response = None

\* the URL input as it is first rendered
UrlInputIdle ==
  /\ url = ""
  /\ isLoading = FALSE
  /\ inFlight = 0
  /\ formData = None
  /\ showUrlInput = TRUE
  /\ extracted = 0
  /\ toast = None
  /\ requests = 0

\* the Index page as it is first rendered
PageIdle ==
  /\ currentProperty = None
  /\ currentScores = None
  /\ isCalculating = FALSE
  /\ showResults = FALSE
  /\ timers = <<>>
  /\ submissions = 0

\* before the first call; the page passes no weights (Index.tsx:22), other
\* callers may
Start(inputs, weightSets) ==
  /\ property \in inputs
  /\ weights \in weightSets
  /\ result = None
  /\ calls = 0
  /\ last = "none"
  /\ HelpersIdle
  /\ HeaderIdle
  /\ ScraperIdle
  /\ UrlInputIdle
  /\ PageIdle

\* calculatePropertyScore(property, weights)
Score ==
  /\ calls < MaxCalls
  /\ result' = Some(calculatePropertyScore(property, weights))
  /\ calls' = calls + 1
  /\ last' = "score"
  /\ UNCHANGED <<property, weights>>
  /\ UNCHANGED helperVars
  /\ UNCHANGED headerVars
  /\ UNCHANGED scraperVars
  /\ UNCHANGED urlVars
  /\ UNCHANGED pageVars

\* the same record with another price is scored
ScoreWithPrice(p) ==
  /\ calls \in 1..(MaxCalls - 1)
  /\ p # property.price
  /\ property' = [property EXCEPT !.price = p]
  /\ result' = Some(calculatePropertyScore(property', weights))
  /\ calls' = calls + 1
  /\ last' = "price"
  /\ UNCHANGED weights
  /\ UNCHANGED helperVars
  /\ UNCHANGED headerVars
  /\ UNCHANGED scraperVars
  /\ UNCHANGED urlVars
  /\ UNCHANGED pageVars

\* the same record with another noise level is scored
ScoreWithNoiseLevel(n) ==
  /\ calls \in 1..(MaxCalls - 1)
  /\ Some(n) # property.noiseLevel
  /\ property' = [property EXCEPT !.noiseLevel = Some(n)]
  /\ result' = Some(calculatePropertyScore(property', weights))
  /\ calls' = calls + 1
  /\ last' = "noise"
  /\ UNCHANGED weights
  /\ UNCHANGED helperVars
  /\ UNCHANGED headerVars
  /\ UNCHANGED scraperVars
  /\ UNCHANGED urlVars
  /\ UNCHANGED pageVars

\* the same record is scored with one weight raised by d
ScoreWithWeightRaised(name, d) ==
  /\ calls \in 1..(MaxCalls - 1)
  /\ weights' = [weights EXCEPT ![name] = Add(weights[name], d)]
  /\ result' = Some(calculatePropertyScore(property, weights'))
  /\ calls' = calls + 1
  /\ last' = "weight"
  /\ UNCHANGED property
  /\ UNCHANGED helperVars
  /\ UNCHANGED headerVars
  /\ UNCHANGED scraperVars
  /\ UNCHANGED urlVars
  /\ UNCHANGED pageVars

\* every input, scored by the page
Init == Start(Inputs, {DEFAULT_WEIGHTS})

Next == Score

Spec == Init /\ [][Next]_vars

\* the inputs that vary one group of fields
FieldInputs ==
  SchoolInputs \cup LocationInputs \cup DaysInputs \cup PercentInputs \cup FloorInputs
    \cup TaxInputs \cup AmenityInputs

InitFields == Start(FieldInputs, {DEFAULT_WEIGHTS})

SpecFields == InitFields /\ [][Next]_vars

\* calls that differ in one weight
InitWeights == Start(Inputs, {DEFAULT_WEIGHTS}) \/ Start(LifestyleInputs, {HeavyWeights})

NextWeights ==
  \/ Score
  \/ \E name \in WeightNames, d \in WeightSteps : ScoreWithWeightRaised(name, d)

SpecWeights == InitWeights /\ [][NextWeights]_vars

\* calls that differ in the price
InitPrice == Start(PriceInputs \cup NoAreaInputs, {DEFAULT_WEIGHTS})

NextPrice ==
  \/ Score
  \/ \E p \in Prices : ScoreWithPrice(p)

SpecPrice == InitPrice /\ [][NextPrice]_vars

\* calls that differ in the noise level
InitNoise == Start(LifestyleInputs, {DEFAULT_WEIGHTS, HeavyWeights})

NextNoise ==
  \/ Score
  \/ \E n \in MinNoiseLevel..MaxNoiseLevel : ScoreWithNoiseLevel(n)

SpecNoise == InitNoise /\ [][NextNoise]_vars

----------------------------------------------------------------------------
(* The presentation helpers                                                *)

\* scores in steps of 0.05 from 0 to 11, an unclamped 15 and NaN
ScoreSamples == {Rat(t, 20) : t \in 0..220} \cup {Num(15), NaN}

\* the helpers are applied to a score
ShowScore ==
  /\ Present(cardScore)
  /\ shown = None
  /\ shown' = Some([color |-> getScoreColor(cardScore[1]), label |-> getScoreLabel(cardScore[1])])
  /\ UNCHANGED <<last, cardScore>>
  /\ UNCHANGED scorerVars
  /\ UNCHANGED headerVars
  /\ UNCHANGED scraperVars
  /\ UNCHANGED urlVars
  /\ UNCHANGED pageVars

InitHelpers ==
  /\ property = BaseProperty
  /\ weights = DEFAULT_WEIGHTS
  /\ result = None
  /\ calls = 0
  /\ last = "none"
  /\ cardScore \in {Some(x) : x \in ScoreSamples}
  /\ shown = None
  /\ HeaderIdle
  /\ ScraperIdle
  /\ UrlInputIdle
  /\ PageIdle

NextHelpers == ShowScore

SpecHelpers == InitHelpers /\ [][NextHelpers]_vars

----------------------------------------------------------------------------
(* TastefulHeader                                                          *)

\* most toggles of the theme in one behaviour
MaxToggles == 3

\* what localStorage may hold under 'theme' when the page loads: nothing, a
\* value the header wrote, or a string another writer left
StoredThemes == {None, Some("dark"), Some("light"), Some("system")}

\* useState initializer: the theme of the first render
initialTheme(dark) == IF dark THEN "dark" ELSE "light"

\* next of the mount effect, with light as the default
nextOnMount_Light(stored) == IF Present(stored) THEN stored[1] ELSE "light"

\* next of the mount effect: stored ?? 'dark'
nextOnMount(stored) == IF Present(stored) THEN stored[1] ELSE "dark"

\* next of toggleTheme
nextOnToggle(t) == IF t = "dark" THEN "light" ELSE "dark"

\* the first render of the header
RenderHeader ==
  /\ mounted = "no"
  /\ theme' = Some(initialTheme(rootDark))
  /\ open' = FALSE
  /\ mounted' = "rendered"
  /\ last' = "render"
  /\ UNCHANGED <<storedTheme, rootDark, chosen, toggles>>
  /\ UNCHANGED scorerVars
  /\ UNCHANGED helperVars
  /\ UNCHANGED scraperVars
  /\ UNCHANGED urlVars
  /\ UNCHANGED pageVars

\* the effect that runs once after the first render
MountEffect ==
  /\ mounted = "rendered"
  /\ LET next == nextOnMount(storedTheme)
     IN  /\ rootDark' = (next = "dark")
         /\ theme' = Some(next)
  /\ mounted' = "yes"
  /\ last' = "effect"
  /\ UNCHANGED <<open, storedTheme, chosen, toggles>>
  /\ UNCHANGED scorerVars
  /\ UNCHANGED helperVars
  /\ UNCHANGED scraperVars
  /\ UNCHANGED urlVars
  /\ UNCHANGED pageVars

toggleTheme ==
  /\ mounted = "yes"
  /\ toggles < MaxToggles
  /\ LET next == nextOnToggle(theme[1])
     IN  /\ rootDark' = (next = "dark")
         /\ storedTheme' = Some(next)
         /\ theme' = Some(next)
         /\ chosen' = Some(next)
  /\ toggles' = toggles + 1
  /\ last' = "toggle"
  /\ UNCHANGED <<mounted, open>>
  /\ UNCHANGED scorerVars
  /\ UNCHANGED helperVars
  /\ UNCHANGED scraperVars
  /\ UNCHANGED urlVars
  /\ UNCHANGED pageVars

\* the navigation button: setOpen(v => !v)
ToggleNav ==
  /\ mounted = "yes"
  /\ open' = ~open
  /\ last' = "nav"
  /\ UNCHANGED <<mounted, theme, storedTheme, rootDark, chosen, toggles>>
  /\ UNCHANGED scorerVars
  /\ UNCHANGED helperVars
  /\ UNCHANGED scraperVars
  /\ UNCHANGED urlVars
  /\ UNCHANGED pageVars

\* a navigation link: setOpen(false)
CloseNav ==
  /\ mounted = "yes"
  /\ open' = FALSE
  /\ last' = "link"
  /\ UNCHANGED <<mounted, theme, storedTheme, rootDark, chosen, toggles>>
  /\ UNCHANGED scorerVars
  /\ UNCHANGED helperVars
  /\ UNCHANGED scraperVars
  /\ UNCHANGED urlVars
  /\ UNCHANGED pageVars

\* the header leaves the page; the document and localStorage stay
UnmountHeader ==
  /\ mounted = "yes"
  /\ mounted' = "no"
  /\ theme' = None
  /\ open' = FALSE
  /\ last' = "unmount"
  /\ UNCHANGED <<storedTheme, rootDark, chosen, toggles>>
  /\ UNCHANGED scorerVars
  /\ UNCHANGED helperVars
  /\ UNCHANGED scraperVars
  /\ UNCHANGED urlVars
  /\ UNCHANGED pageVars

\* the page is loaded again: a new document, the same localStorage
ReloadPage ==
  /\ mounted = "yes"
  /\ mounted' = "no"
  /\ theme' = None
  /\ open' = FALSE
  /\ rootDark' \in BOOLEAN
  /\ last' = "reload"
  /\ UNCHANGED <<storedTheme, chosen, toggles>>
  /\ UNCHANGED scorerVars
  /\ UNCHANGED helperVars
  /\ UNCHANGED scraperVars
  /\ UNCHANGED urlVars
  /\ UNCHANGED pageVars

InitHeader ==
  /\ property = BaseProperty
  /\ weights = DEFAULT_WEIGHTS
  /\ result = None
  /\ calls = 0
  /\ last = "none"
  /\ HelpersIdle
  /\ mounted = "no"
  /\ theme = None
  /\ open = FALSE
  /\ storedTheme \in StoredThemes
  /\ rootDark \in BOOLEAN
  /\ chosen = None
  /\ toggles = 0
  /\ ScraperIdle
  /\ UrlInputIdle
  /\ PageIdle

NextHeader ==
  \/ RenderHeader
  \/ MountEffect
  \/ toggleTheme
  \/ ToggleNav
  \/ CloseNav
  \/ UnmountHeader
  \/ ReloadPage

SpecHeader == InitHeader /\ [][NextHeader]_vars

----------------------------------------------------------------------------
(* scrape-streeteasy: extraction                                           *)

\* the listing's HTML is kept as the set of lower-case phrases that
\* html.toLowerCase() includes, and the building age the regex extraction
\* finds in it (NaN when a year does not parse)

amenityPatterns ==
  <<"Doorman", "doorman", "Gym", "gym", "fitness", "Pool", "pool",
    "Rooftop", "rooftop", "roof deck", "shared outdoor space", "outdoor space",
    "Parking", "parking", "Laundry", "laundry", "Storage", "storage",
    "Pet Friendly", "pet", "cats", "dogs", "pet friendly",
    "Balcony", "balcony", "Elevator", "elevator", "Garden", "garden",
    "Bike Room", "bike room", "bicycle storage", "bike storage",
    "Live-In Super", "live-in super", "resident manager", "super on site",
    "Playground", "playground", "children play", "kids play area">>

\* toLowerCase, for the patterns and the amenity names
toLowerCase(str) ==
  CASE str = "Doorman" -> "doorman" [] str = "Gym" -> "gym" [] str = "Pool" -> "pool"
    [] str = "Rooftop" -> "rooftop" [] str = "Parking" -> "parking"
    [] str = "Laundry" -> "laundry" [] str = "Storage" -> "storage"
    [] str = "Pet Friendly" -> "pet friendly" [] str = "Balcony" -> "balcony"
    [] str = "Elevator" -> "elevator" [] str = "Garden" -> "garden"
    [] str = "Bike Room" -> "bike room" [] str = "Live-In Super" -> "live-in super"
    [] str = "Playground" -> "playground" [] str = "Concierge" -> "concierge"
    [] str = "Rooftop/Garden" -> "rooftop/garden"
    [] OTHER -> str

\* the phrases a lower-case phrase includes, besides itself
includedIn(lower) ==
  {lower} \cup
  CASE lower = "shared outdoor space" -> {"outdoor space"}
    [] lower = "pet friendly" -> {"pet"}
    [] lower = "bicycle storage" -> {"storage"}
    [] lower = "bike storage" -> {"storage"}
    [] lower = "rooftop/garden" -> {"rooftop", "garden"}
    [] OTHER -> {}

getStandardAmenity(pattern) ==
  LET has == includedIn(toLowerCase(pattern))
  IN  IF "doorman" \in has THEN Some("Doorman")
      ELSE IF has \cap {"gym", "fitness"} # {} THEN Some("Gym")
      ELSE IF "pool" \in has THEN Some("Pool")
      ELSE IF has \cap {"rooftop", "roof deck", "garden", "shared outdoor space",
                        "outdoor space"} # {}
           THEN Some("Rooftop/Garden")
      ELSE IF "parking" \in has THEN Some("Parking")
      ELSE IF "laundry" \in has THEN Some("Laundry")
      ELSE IF "storage" \in has THEN Some("Storage")
      ELSE IF has \cap {"pet", "cats", "dogs"} # {} THEN Some("Pet Friendly")
      ELSE IF "balcony" \in has THEN Some("Balcony")
      ELSE IF "elevator" \in has THEN Some("Elevator")
      ELSE IF has \cap {"bike room", "bicycle storage", "bike storage"} # {}
           THEN Some("Bike Room")
      ELSE IF has \cap {"live-in super", "resident manager", "super on site"} # {}
           THEN Some("Live-In Super")
      ELSE IF has \cap {"playground", "children play", "kids play area"} # {}
           THEN Some("Playground")
      ELSE None

\* whether a sequence has the element
includes(seq, x) == \E i \in 1..Len(seq) : seq[i] = x

\* the loop of extractAmenities over the patterns from index i
RECURSIVE extractAmenitiesFrom(_, _, _)
extractAmenitiesFrom(words, i, amenities) ==
  IF i > Len(amenityPatterns) THEN amenities
  ELSE LET pattern == amenityPatterns[i]
           standardAmenity == getStandardAmenity(pattern)
       IN  IF toLowerCase(pattern) \in words /\ Present(standardAmenity)
              /\ ~includes(amenities, standardAmenity[1])
           THEN extractAmenitiesFrom(words, i + 1, Append(amenities, standardAmenity[1]))
           ELSE extractAmenitiesFrom(words, i + 1, amenities)

extractAmenities(words) == extractAmenitiesFrom(words, 1, <<>>)

luxuryKeywords ==
  {"luxury", "premium", "high-end", "concierge", "white glove", "doorman", "valet"}

historicKeywords == {"landmark", "historic", "heritage", "brownstone", "townhouse"}

classifyBuildingType(buildingAge, words, amenities) ==
  LET amenitiesLower ==
        UNION {includedIn(toLowerCase(amenities[i])) : i \in 1..Len(amenities)}
      hasLuxuryIndicators == (words \cup amenitiesLower) \cap luxuryKeywords # {}
      hasHistoricIndicators == words \cap historicKeywords # {}
  IN  IF hasHistoricIndicators THEN "historic"
      ELSE IF hasLuxuryIndicators THEN "luxury"
      ELSE IF Ge(buildingAge, Num(80)) THEN "prewar"
      ELSE IF Ge(buildingAge, Num(45)) THEN "postwar"
      ELSE IF Lt(buildingAge, Num(45)) THEN "modern"
      ELSE "other"

validTypes == {"prewar", "postwar", "modern", "luxury", "historic", "other"}

\* parseInt(x) || d for an answer's numeric field: absent, unparsable and 0
\* all give d
parseIntOr(x, d) == IF Present(x) /\ x[1] # 0 THEN x[1] ELSE d

\* the validated record of extractWithOpenAI, for a parsed answer
validated(answer, words) ==
  LET buildingAge ==
        MathMin(Num(300), MathMax(Num(0), Num(parseIntOr(answer.buildingAge, 50))))
      buildingType == IF TruthyStr(answer.buildingType) THEN answer.buildingType[1] ELSE "Other"
      amenities == IF Present(answer.amenities) THEN answer.amenities[1] ELSE <<>>
  IN  [buildingAge |-> buildingAge,
       buildingType |->
         IF buildingType = "Other" /\ Gt(buildingAge, Num(0))
         THEN classifyBuildingType(buildingAge, words, amenities)
         ELSE buildingType,
       amenities |-> amenities]

\* the record the regex extraction returns, for the fields modelled
regexExtraction(page) ==
  LET classified == classifyBuildingType(page.age, page.words, extractAmenities(page.words))
  IN  [buildingAge |-> page.age,
       buildingType |-> IF classified \in validTypes THEN classified ELSE "other",
       amenities |-> extractAmenities(page.words)]

----------------------------------------------------------------------------
(* scrape-streeteasy: the handler                                          *)

\* listing pages: the phrases found in the HTML and the age the regex
\* extraction derives
Page(words, age) == [words |-> words, age |-> age]

Pages ==
  {Page({}, Num(30)),
   Page({"doorman", "gym", "fitness", "elevator"}, Num(90)),
   Page({"bike storage", "storage", "pool", "landmark"}, Num(60)),
   Page({"pet friendly", "pet", "laundry"}, NaN),
   Page({"laundry"}, Num(60)),
   Page({"garden"}, Num(90))}

\* parsed answers of the language model, for the fields modelled; a field
\* may be missing
Answers ==
  [buildingType : {None, Some(""), Some("prewar"), Some("Prewar"), Some("condo"),
                   Some("Other"), Some("other")},
   buildingAge : {None, Some(0), Some(30), Some(90), Some(-5)},
   amenities : {None, Some(<<>>), Some(<<"Doorman">>), Some(<<"Gym", "Gym">>)}]

\* extractWithOpenAI's record for each answer on each page
validatedOn ==
  [answer \in Answers |-> [page \in Pages |-> validated(answer, page.words)]]

\* the regex extraction's record for each page
regexExtractionOn == [page \in Pages |-> regexExtraction(page)]

\* the JSON body of a response
Success(data) == [success |-> TRUE, data |-> Some(data)]

Failure == [success |-> FALSE, data |-> None]

Respond(status, body) ==
  /\ response' = Some([status |-> status, body |-> body])
  /\ handler' = "done"

\* the request arrives: OPTIONS is answered at once, a body that is not
\* JSON makes req.json() throw, and url is undefined when the body has none
Receive(method, body) ==
  /\ handler = "idle"
  /\ IF method = "OPTIONS" THEN Respond(200, None) /\ UNCHANGED requestUrl
     ELSE IF body = "malformed" THEN Respond(500, Some(Failure)) /\ UNCHANGED requestUrl
     ELSE /\ requestUrl' = (IF body = "url" THEN Some("url") ELSE None)
          /\ handler' = "direct"
          /\ UNCHANGED response
  /\ last' = "receive"
  /\ UNCHANGED <<FIRECRAWL_API_KEY, OPENAI_API_KEY, listing, html, ran>>
  /\ UNCHANGED scorerVars
  /\ UNCHANGED helperVars
  /\ UNCHANGED headerVars
  /\ UNCHANGED urlVars
  /\ UNCHANGED pageVars

\* DirectFetch that goes on to Firecrawl without a key
DirectFetch_NoKeyCheck(outcome) ==
  /\ handler = "direct"
  /\ requestUrl = None => outcome = "threw"
  /\ ran' = Append(ran, "direct")
  /\ IF outcome = "ok"
     THEN html' = Some("direct") /\ handler' = "extract" /\ UNCHANGED response
     ELSE handler' = "firecrawl" /\ UNCHANGED <<html, response>>
  /\ last' = "direct"
  /\ UNCHANGED <<requestUrl, FIRECRAWL_API_KEY, OPENAI_API_KEY, listing>>
  /\ UNCHANGED scorerVars
  /\ UNCHANGED helperVars
  /\ UNCHANGED headerVars
  /\ UNCHANGED urlVars
  /\ UNCHANGED pageVars

\* fetch(url): it throws for an undefined url; otherwise it may throw,
\* answer with a non-OK status or deliver the page
DirectFetch(outcome) ==
  /\ handler = "direct"
  /\ requestUrl = None => outcome = "threw"
  /\ ran' = Append(ran, "direct")
  /\ IF outcome = "ok"
     THEN html' = Some("direct") /\ handler' = "extract" /\ UNCHANGED response
     ELSE IF ~FIRECRAWL_API_KEY
     THEN Respond(500, Some(Failure)) /\ UNCHANGED html
     ELSE handler' = "firecrawl" /\ UNCHANGED <<html, response>>
  /\ last' = "direct"
  /\ UNCHANGED <<requestUrl, FIRECRAWL_API_KEY, OPENAI_API_KEY, listing>>
  /\ UNCHANGED scorerVars
  /\ UNCHANGED helperVars
  /\ UNCHANGED headerVars
  /\ UNCHANGED urlVars
  /\ UNCHANGED pageVars

\* the Firecrawl call: it may throw, answer with a non-OK status, answer
\* without HTML or deliver the page
Firecrawl(outcome) ==
  /\ handler = "firecrawl"
  /\ ran' = Append(ran, "firecrawl")
  /\ IF outcome = "ok"
     THEN html' = Some("firecrawl") /\ handler' = "extract" /\ UNCHANGED response
     ELSE Respond(500, Some(Failure)) /\ UNCHANGED html
  /\ last' = "firecrawl"
  /\ UNCHANGED <<requestUrl, FIRECRAWL_API_KEY, OPENAI_API_KEY, listing>>
  /\ UNCHANGED scorerVars
  /\ UNCHANGED helperVars
  /\ UNCHANGED headerVars
  /\ UNCHANGED urlVars
  /\ UNCHANGED pageVars

\* extractPropertyData up to the OpenAI step: url.split throws for an
\* undefined url
StartExtraction ==
  /\ handler = "extract"
  /\ IF requestUrl = None THEN Respond(500, Some(Failure))
     ELSE /\ handler' = (IF OPENAI_API_KEY THEN "openai" ELSE "regex")
          /\ UNCHANGED response
  /\ last' = "extract"
  /\ UNCHANGED <<requestUrl, FIRECRAWL_API_KEY, OPENAI_API_KEY, listing, html, ran>>
  /\ UNCHANGED scorerVars
  /\ UNCHANGED helperVars
  /\ UNCHANGED headerVars
  /\ UNCHANGED urlVars
  /\ UNCHANGED pageVars

\* OpenAIFails with the failure passed on to the handler
OpenAIFails_Rethrown(outcome) ==
  /\ handler = "openai"
  /\ ran' = Append(ran, "openai:" \o outcome)
  /\ Respond(500, Some(Failure))
  /\ last' = "openai"
  /\ UNCHANGED <<requestUrl, FIRECRAWL_API_KEY, OPENAI_API_KEY, listing, html>>
  /\ UNCHANGED scorerVars
  /\ UNCHANGED helperVars
  /\ UNCHANGED headerVars
  /\ UNCHANGED urlVars
  /\ UNCHANGED pageVars

\* extractWithOpenAI fails (fetch throws, non-OK status, no JSON in the
\* answer, JSON that does not parse) and returns null
OpenAIFails(outcome) ==
  /\ handler = "openai"
  /\ ran' = Append(ran, "openai:" \o outcome)
  /\ handler' = "regex"
  /\ last' = "openai"
  /\ UNCHANGED <<requestUrl, FIRECRAWL_API_KEY, OPENAI_API_KEY, listing, html, response>>
  /\ UNCHANGED scorerVars
  /\ UNCHANGED helperVars
  /\ UNCHANGED headerVars
  /\ UNCHANGED urlVars
  /\ UNCHANGED pageVars

\* extractWithOpenAI returns the validated answer, which the handler sends
OpenAIAnswers(answer) ==
  /\ handler = "openai"
  /\ ran' = Append(ran, "openai:answer")
  /\ Respond(200, Some(Success(validatedOn[answer][listing[1]])))
  /\ last' = "openai"
  /\ UNCHANGED <<requestUrl, FIRECRAWL_API_KEY, OPENAI_API_KEY, listing, html>>
  /\ UNCHANGED scorerVars
  /\ UNCHANGED helperVars
  /\ UNCHANGED headerVars
  /\ UNCHANGED urlVars
  /\ UNCHANGED pageVars

\* the regex extraction, whose record the handler sends
RegexExtraction ==
  /\ handler = "regex"
  /\ ran' = Append(ran, "regex")
  /\ Respond(200, Some(Success(regexExtractionOn[listing[1]])))
  /\ last' = "regex"
  /\ UNCHANGED <<requestUrl, FIRECRAWL_API_KEY, OPENAI_API_KEY, listing, html>>
  /\ UNCHANGED scorerVars
  /\ UNCHANGED helperVars
  /\ UNCHANGED headerVars
  /\ UNCHANGED urlVars
  /\ UNCHANGED pageVars

InitScrape ==
  /\ property = BaseProperty
  /\ weights = DEFAULT_WEIGHTS
  /\ result = None
  /\ calls = 0
  /\ last = "none"
  /\ HelpersIdle
  /\ HeaderIdle
  /\ handler = "idle"
  /\ requestUrl = None
  /\ FIRECRAWL_API_KEY \in BOOLEAN
  /\ OPENAI_API_KEY \in BOOLEAN
  /\ listing \in {Some(page) : page \in Pages}
  /\ html = None
  /\ ran = <<>>
  /\ response = None
  /\ UrlInputIdle
  /\ PageIdle

NextScrape ==
  \/ \E method \in {"OPTIONS", "POST"}, body \in {"malformed", "noUrl", "url"} :
       Receive(method, body)
  \/ \E outcome \in {"ok", "status", "threw"} : DirectFetch(outcome)
  \/ \E outcome \in {"ok", "status", "threw", "noHtml"} : Firecrawl(outcome)
  \/ StartExtraction
  \/ \E outcome \in {"threw", "status", "noJson", "parseError"} : OpenAIFails(outcome)
  \/ \E answer \in Answers : OpenAIAnswers(answer)
  \/ RegexExtraction

SpecScrape == InitScrape /\ [][NextScrape]_vars

\* every awaited call settles and every continuation runs
SpecScrapeLive == SpecScrape /\ WF_vars(NextScrape)

----------------------------------------------------------------------------
(* UrlInput and PropertyForm                                               *)

MaxRequests == 3

\* the URLs typed into the input
Urls == {"", "  ", "https://example.com/listing", " https://streeteasy.com/building/a/1f "}

\* String.prototype.trim on the URLs above
trim(str) ==
  CASE str = "  " -> ""
    [] str = " https://streeteasy.com/building/a/1f " -> "https://streeteasy.com/building/a/1f"
    [] OTHER -> str

\* url.includes('streeteasy.com') on the URLs above
includesStreetEasy(str) ==
  str \in {" https://streeteasy.com/building/a/1f ", "https://streeteasy.com/building/a/1f"}

\* what a settled supabase.functions.invoke call hands back: an error, data
\* whose success is false, no data at all (reading data.success throws), a
\* rejected promise, or data whose success is true
Outcomes == {"error", "failure", "nodata", "rejected", "success"}

\* the form's data: None while it holds its defaults, else what filled it
FormFills == {"edited", "extracted"}

\* onChange of the input, which is disabled while a request is loading
setUrl(value) ==
  /\ showUrlInput
  /\ ~isLoading
  /\ url' = value
  /\ last' = "setUrl"
  /\ UNCHANGED <<isLoading, inFlight, formData, showUrlInput, extracted, toast, requests>>
  /\ UNCHANGED scorerVars
  /\ UNCHANGED helperVars
  /\ UNCHANGED headerVars
  /\ UNCHANGED scraperVars
  /\ UNCHANGED pageVars

\* UrlInput.handleSubmit up to its await; the submit button and the input
\* are disabled while a request is loading
SubmitUrl ==
  /\ showUrlInput
  /\ ~isLoading
  /\ requests < MaxRequests
  /\ requests' = requests + 1
  /\ IF trim(url) = ""
     THEN /\ toast' = Some("Invalid URL")
          /\ last' = "submit:blank"
          /\ UNCHANGED <<isLoading, inFlight>>
     ELSE IF ~includesStreetEasy(url)
     THEN /\ toast' = Some("Invalid URL")
          /\ last' = "submit:foreign"
          /\ UNCHANGED <<isLoading, inFlight>>
     ELSE /\ isLoading' = TRUE
          /\ inFlight' = inFlight + 1
          /\ last' = "submit:sent"
          /\ UNCHANGED toast
  /\ UNCHANGED <<url, formData, showUrlInput, extracted>>
  /\ UNCHANGED scorerVars
  /\ UNCHANGED helperVars
  /\ UNCHANGED headerVars
  /\ UNCHANGED scraperVars
  /\ UNCHANGED pageVars

\* PropertyForm.handleDataExtracted
handleDataExtracted ==
  /\ formData' = Some("extracted")
  /\ showUrlInput' = FALSE
  /\ extracted' = extracted + 1

\* mutant of Settle: the loading flag is cleared at the end of the try block
Settle_NoFinally(outcome) ==
  /\ inFlight > 0
  /\ inFlight' = inFlight - 1
  /\ IF outcome = "success"
     THEN /\ toast' = Some("Data Extracted!")
          /\ handleDataExtracted
          /\ isLoading' = FALSE
     ELSE /\ toast' = Some("Extraction Failed")
          /\ UNCHANGED <<formData, showUrlInput, extracted, isLoading>>
  /\ last' = outcome
  /\ UNCHANGED <<url, requests>>
  /\ UNCHANGED scorerVars
  /\ UNCHANGED helperVars
  /\ UNCHANGED headerVars
  /\ UNCHANGED scraperVars
  /\ UNCHANGED pageVars

\* the rest of UrlInput.handleSubmit, once the invoke call has settled
Settle(outcome) ==
  /\ inFlight > 0
  /\ inFlight' = inFlight - 1
  /\ IF outcome = "success"
     THEN /\ toast' = Some("Data Extracted!")
          /\ handleDataExtracted
     ELSE /\ toast' = Some("Extraction Failed")
          /\ UNCHANGED <<formData, showUrlInput, extracted>>
  /\ isLoading' = FALSE
  /\ last' = outcome
  /\ UNCHANGED <<url, requests>>
  /\ UNCHANGED scorerVars
  /\ UNCHANGED helperVars
  /\ UNCHANGED headerVars
  /\ UNCHANGED scraperVars
  /\ UNCHANGED pageVars

\* the Manual Entry button, disabled while a request is loading
handleToggleManual ==
  /\ showUrlInput
  /\ ~isLoading
  /\ showUrlInput' = FALSE
  /\ last' = "manual"
  /\ UNCHANGED <<url, isLoading, inFlight, formData, extracted, toast, requests>>
  /\ UNCHANGED scorerVars
  /\ UNCHANGED helperVars
  /\ UNCHANGED headerVars
  /\ UNCHANGED scraperVars
  /\ UNCHANGED pageVars

\* a field of the form is edited by hand
EditForm ==
  /\ ~showUrlInput
  /\ formData' = Some("edited")
  /\ last' = "edit"
  /\ UNCHANGED <<url, isLoading, inFlight, showUrlInput, extracted, toast, requests>>
  /\ UNCHANGED scorerVars
  /\ UNCHANGED helperVars
  /\ UNCHANGED headerVars
  /\ UNCHANGED scraperVars
  /\ UNCHANGED pageVars

\* back to the URL input, which is mounted afresh
handleBackToUrl ==
  /\ ~showUrlInput
  /\ showUrlInput' = TRUE
  /\ url' = ""
  /\ isLoading' = FALSE
  /\ last' = "backToUrl"
  /\ UNCHANGED <<inFlight, formData, extracted, toast, requests>>
  /\ UNCHANGED scorerVars
  /\ UNCHANGED helperVars
  /\ UNCHANGED headerVars
  /\ UNCHANGED scraperVars
  /\ UNCHANGED pageVars

InitUrl ==
  /\ property = BaseProperty
  /\ weights = DEFAULT_WEIGHTS
  /\ result = None
  /\ calls = 0
  /\ last = "none"
  /\ HelpersIdle
  /\ HeaderIdle
  /\ ScraperIdle
  /\ UrlInputIdle
  /\ PageIdle

NextUrl ==
  \/ \E value \in Urls : setUrl(value)
  \/ SubmitUrl
  \/ \E outcome \in Outcomes : Settle(outcome)
  \/ handleToggleManual
  \/ EditForm
  \/ handleBackToUrl

SpecUrl == InitUrl /\ [][NextUrl]_vars

----------------------------------------------------------------------------
(* The Index page                                                          *)

MaxSubmissions == 3

\* the records the form submits
Submissions ==
  {BaseProperty, [BaseProperty EXCEPT !.price = 900000],
   [BaseProperty EXCEPT !.amenities = <<>>]}

\* calculatePropertyScore(property) for each of these records
scoresOf ==
  [submitted \in Submissions |-> calculatePropertyScore(submitted, DEFAULT_WEIGHTS)]

\* handlePropertySubmit up to its await: the 1500 ms timer is started
handlePropertySubmit(submitted) ==
  /\ submissions < MaxSubmissions
  /\ submissions' = submissions + 1
  /\ isCalculating' = TRUE
  /\ timers' = Append(timers, submitted)
  /\ last' = "submit"
  /\ UNCHANGED <<currentProperty, currentScores, showResults>>
  /\ UNCHANGED scorerVars
  /\ UNCHANGED helperVars
  /\ UNCHANGED headerVars
  /\ UNCHANGED scraperVars
  /\ UNCHANGED urlVars

\* mutant of TimerFires: the property shown is the one submitted last
TimerFires_LatestProperty ==
  /\ timers # <<>>
  /\ currentProperty' = Some(timers[Len(timers)])
  /\ currentScores' = Some(scoresOf[Head(timers)])
  /\ showResults' = TRUE
  /\ isCalculating' = FALSE
  /\ timers' = Tail(timers)
  /\ last' = "timer"
  /\ UNCHANGED submissions
  /\ UNCHANGED scorerVars
  /\ UNCHANGED helperVars
  /\ UNCHANGED headerVars
  /\ UNCHANGED scraperVars
  /\ UNCHANGED urlVars

\* the rest of handlePropertySubmit, when its timer fires; timers of equal
\* delay fire in the order they were started, and the four state updates of
\* the continuation are rendered together
TimerFires ==
  /\ timers # <<>>
  /\ LET submitted == Head(timers)
         scores == scoresOf[submitted]
     IN  /\ currentProperty' = Some(submitted)
         /\ currentScores' = Some(scores)
  /\ showResults' = TRUE
  /\ isCalculating' = FALSE
  /\ timers' = Tail(timers)
  /\ last' = "timer"
  /\ UNCHANGED submissions
  /\ UNCHANGED scorerVars
  /\ UNCHANGED helperVars
  /\ UNCHANGED headerVars
  /\ UNCHANGED scraperVars
  /\ UNCHANGED urlVars

handleNewEvaluation ==
  /\ currentProperty' = None
  /\ currentScores' = None
  /\ showResults' = FALSE
  /\ last' = "newEvaluation"
  /\ UNCHANGED <<isCalculating, timers, submissions>>
  /\ UNCHANGED scorerVars
  /\ UNCHANGED helperVars
  /\ UNCHANGED headerVars
  /\ UNCHANGED scraperVars
  /\ UNCHANGED urlVars

handleBackToForm ==
  /\ showResults' = FALSE
  /\ last' = "backToForm"
  /\ UNCHANGED <<currentProperty, currentScores, isCalculating, timers, submissions>>
  /\ UNCHANGED scorerVars
  /\ UNCHANGED helperVars
  /\ UNCHANGED headerVars
  /\ UNCHANGED scraperVars
  /\ UNCHANGED urlVars

InitPage ==
  /\ property = BaseProperty
  /\ weights = DEFAULT_WEIGHTS
  /\ result = None
  /\ calls = 0
  /\ last = "none"
  /\ HelpersIdle
  /\ HeaderIdle
  /\ ScraperIdle
  /\ UrlInputIdle
  /\ PageIdle

NextPage ==
  \/ \E submitted \in Submissions : handlePropertySubmit(submitted)
  \/ TimerFires
  \/ handleNewEvaluation
  \/ handleBackToForm

SpecPage == InitPage /\ [][NextPage]_vars

\* a timer that was started fires
SpecPageLive == SpecPage /\ WF_vars(TimerFires)

----------------------------------------------------------------------------
(* Vocabulary of the properties                                            *)

ScoreFields == WeightNames \cup {"overall"}

Scored == result # None

InRange(x) == IsFinite(x) /\ Le(Num(1), x) /\ Le(x, Num(10))

IsInteger(x) == IsFinite(x) /\ x.d = 1

\* every field inside its documented range and every enum value a table key
ValidProperty(p) ==
  /\ p.price >= 0 /\ p.squareFeet >= 0 /\ p.monthlyFees >= 0 /\ p.bedrooms >= 0
  /\ p.floor >= 0 /\ p.totalFloors >= 0 /\ p.buildingAge >= 0
  /\ Present(p.buildingType) => p.buildingType[1] \in DOMAIN BUILDING_TYPE_SCORES
  /\ Present(p.noiseLevel) => p.noiseLevel[1] \in MinNoiseLevel..MaxNoiseLevel
  /\ Present(p.daysOnMarket) => p.daysOnMarket[1] >= 0

\* p and q are the same record except for the field f
SameExcept(p, q, f) ==
  /\ p[f] # q[f]
  /\ \A g \in DOMAIN p : g # f => p[g] = q[g]

----------------------------------------------------------------------------
(* C1..C4: boundedness and degenerate inputs                               *)

\* C1: for every valid PropertyData and the default weights, each of the 8
\* reported sub-scores lies in [1,10] and overall is an integer in [1,10].
\* The code multiplies the averaged score by the market-time bonus and does
\* not clamp the product, so this is violated; it is stated for
\* squareFeet > 0, where no division by zero is involved.
C1_Boundedness ==
  (Scored /\ ValidProperty(property) /\ property.squareFeet > 0
          /\ weights = DEFAULT_WEIGHTS) =>
    /\ \A f \in WeightNames : InRange(result[1][f])
    /\ IsInteger(result[1].overall) /\ InRange(result[1].overall)

\* C2: with squareFeet = 0 and/or price = 0 no field of the returned
\* ScoreBreakdown is NaN or infinite.  0 / 0 is NaN in the code and nothing
\* intercepts it, so this is violated.
C2_ZeroDivisionSafety ==
  (Scored /\ ValidProperty(property) /\ (property.squareFeet = 0 \/ property.price = 0)) =>
    \A f \in ScoreFields : IsFinite(result[1][f])

\* C3: with squareFeet = 0 the price component is scored from the price per
\* room, so it is not the same value for every positive price and bedroom
\* count.  The code has no per-room path: price / 0 is Infinity and the price
\* component is 1 for every positive price, so this is violated.
C3_PerRoomFallback ==
  (Scored /\ property.squareFeet = 0 /\ property.price > 0) =>
    \E p2 \in Prices \ {0}, b2 \in Bedrooms :
      priceScore([property EXCEPT !.price = p2, !.bedrooms = b2]) # priceScore(property)

\* C4: a buildingType that is not a key of the building-type table is scored
\* with the table default, so building is a finite number in [1,10] and
\* overall is not NaN.  The code looks the key up without a default, so this
\* is violated.
C4_UnknownBuildingTypeAbsorbed ==
  (Scored /\ Present(property.buildingType)
          /\ property.buildingType[1] \notin DOMAIN BUILDING_TYPE_SCORES) =>
    /\ InRange(result[1].building)
    /\ result[1].building = Round1(calculateEnhancedBuilding(
                                     [property EXCEPT !.buildingType = Some("other")]))
    /\ result[1].overall.k # "nan"

----------------------------------------------------------------------------
(* C5: overall composition                                                 *)

\* sum over the names in S of s[name] * w[name]
RECURSIVE LinearSum(_, _, _)
LinearSum(S, s, w) ==
  IF S = {} THEN Num(0)
  ELSE LET name == CHOOSE x \in S : TRUE
       IN  Add(Mul(w[name], s[name]), LinearSum(S \ {name}, s, w))

\* round half up: the least integer n with x - n < 1/2, i.e. floor(x + 1/2)
RoundHalfUp(x) ==
  IF ~IsFinite(x) THEN x
  ELSE LET fl == x.n \div x.d
       IN  IF 2 * (x.n - fl * x.d) >= x.d THEN Num(fl + 1) ELSE Num(fl)

Clamp(x, lo, hi) ==
  IF ToNumber(x).k = "nan" THEN NaN
  ELSE IF Lt(x, lo) THEN lo ELSE IF Lt(hi, x) THEN hi ELSE x

C5_Composed ==
  Scored =>
    LET s == subScores(property)
    IN  /\ result[1].overall =
             Clamp(RoundHalfUp(LinearSum(WeightNames, s, weights)), Num(1), Num(10))
        /\ \A f \in WeightNames :
             result[1][f] = Div(RoundHalfUp(Mul(s[f], Num(10))), Num(10))

C5_WeightRaised ==
  \A name \in WeightNames :
    (Scored /\ property' = property /\ SameExcept(weights, weights', name)) =>
      LET s == subScores(property)
          d == Sub(weights'[name], weights[name])
      IN  /\ weightedSum(s, weights') = Add(weightedSum(s, weights), Mul(d, s[name]))
          /\ Lt(Num(0), d) => ~Lt(result'[1].overall, result[1].overall)

\* C5: for any weights, overall = clamp(round-half-up(sum of the unrounded
\* sub-scores times their weights), 1, 10), each reported sub-score is
\* round(subScore * 10) / 10, and raising one weight by d raises the unrounded
\* sum by d times that sub-score and never lowers overall.
C5_OverallComposition == [](C5_Composed) /\ [][C5_WeightRaised]_vars

\* a call with one weight raised, weights that do not sum to 1, a sub-score
\* that the output rounds, and an overall inside the clamp
C5_Witness ==
  /\ Scored /\ last = "weight"
  /\ LinearSum(WeightNames, [n \in WeightNames |-> Num(1)], weights) # Num(1)
  /\ \E f \in WeightNames : result[1][f] # subScores(property)[f]
  /\ Lt(Num(1), result[1].overall) /\ Lt(result[1].overall, Num(10))

----------------------------------------------------------------------------
(* C6, C7: monotonicity                                                    *)

C6_Step ==
  (Scored /\ SameExcept(property, property', "price") /\ property.squareFeet > 0) =>
    LET lo == IF property.price < property'.price THEN property ELSE property'
        hi == IF property.price < property'.price THEN property' ELSE property
        rlo == IF property.price < property'.price THEN result[1] ELSE result'[1]
        rhi == IF property.price < property'.price THEN result'[1] ELSE result[1]
    IN  /\ Le(calculateEnhancedPriceValue(hi), calculateEnhancedPriceValue(lo))
        /\ Le(rhi.priceValue, rlo.priceValue)

\* C6: of two records identical except price1 < price2, with squareFeet > 0,
\* the one with the higher price has the lower or equal priceValue, at full
\* precision and as reported, for every monthlyFees and daysOnMarket.
C6_PriceMonotone == [][C6_Step]_vars

\* a second call with another price and squareFeet > 0 whose priceValue is
\* not pinned to an end of the scale
C6_Witness ==
  /\ Scored /\ last = "price" /\ property.squareFeet > 0 /\ property.price > 0
  /\ TruthyNum(property.daysOnMarket)
  /\ Lt(Num(1), priceScore(property)) /\ Lt(priceScore(property), Num(10))

C7_Step ==
  (Scored /\ SameExcept(property, property', "noiseLevel")
          /\ Present(property.noiseLevel) /\ Present(property'.noiseLevel)
          /\ property.noiseLevel[1] \in MinNoiseLevel..MaxNoiseLevel
          /\ property'.noiseLevel[1] \in MinNoiseLevel..MaxNoiseLevel) =>
    LET up == property.noiseLevel[1] < property'.noiseLevel[1]
        rlo == IF up THEN result[1] ELSE result'[1]
        rhi == IF up THEN result'[1] ELSE result[1]
    IN  Le(rhi.lifestyle, rlo.lifestyle)

\* C7: of two records identical except noiseLevel n1 < n2, both in 1..10,
\* the noisier one has the lower or equal lifestyle, for petFriendly true,
\* false and absent.
C7_NoiseMonotone == [][C7_Step]_vars

\* a second call with another noise level on a pet-friendly record
C7_Witness ==
  /\ Scored /\ last = "noise" /\ property.petFriendly = Some(TRUE)
  /\ property.noiseLevel = Some(MaxNoiseLevel)

----------------------------------------------------------------------------
(* C8..C10: scenarios                                                      *)

ScenarioA(p) ==
  /\ p.price = 1250000 /\ p.squareFeet = 1000 /\ p.monthlyFees = 1200
  /\ p.daysOnMarket = Some(30) /\ p.bedrooms = 2

\* C8 as stated: in Scenario A the price component comes from $1250/sqft
\* against the $800-$2000 band and the reported priceValue is between 5 and 6.
C8_ScenarioA_Original ==
  (Scored /\ ScenarioA(property) /\ weights = DEFAULT_WEIGHTS) =>
    /\ pricePerSqFt(property) = Num(1250)
    /\ expectedPriceRange = [min |-> 800, max |-> 2000]
    /\ Le(Num(5), result[1].priceValue) /\ Le(result[1].priceValue, Num(6))

\* C8 amended: in Scenario A the price component comes from $1250/sqft
\* against the $800-$2000 band and is 7, the monthly-fee component is 8.25,
\* the market-time bonus is 1, and the reported priceValue is 7.6.
C8_ScenarioA ==
  (Scored /\ ScenarioA(property) /\ weights = DEFAULT_WEIGHTS) =>
    /\ pricePerSqFt(property) = Num(1250)
    /\ expectedPriceRange = [min |-> 800, max |-> 2000]
    /\ priceScore(property) = Num(7)
    /\ result[1].priceValue = Rat(76, 10)

C8_Witness == Scored /\ ScenarioA(property) /\ weights = DEFAULT_WEIGHTS

ScenarioD(p) ==
  /\ p.priceHistoryDetails = Some(Details(Some(-15), None, <<>>))
  /\ p.daysOnMarket = Some(120)
  /\ p.assessmentRatio = None

\* C9 as stated: in Scenario D marketContext gets +2.0 and +0.5 on the
\* baseline 5 and the reported marketContext is 10.
C9_ScenarioD_Original ==
  (Scored /\ ScenarioD(property)) =>
    /\ percentageChangeImpact(property.priceHistoryDetails[1]) = Num(2)
    /\ daysOnMarketFactor(property) = Rat(1, 2)
    /\ result[1].marketContext = Num(10)

\* C9 amended: in Scenario D marketContext gets +2.0 and +0.5 on the
\* baseline 5 and the reported marketContext is 7.5, below the cap.
C9_ScenarioD ==
  (Scored /\ ScenarioD(property)) =>
    /\ percentageChangeImpact(property.priceHistoryDetails[1]) = Num(2)
    /\ daysOnMarketFactor(property) = Rat(1, 2)
    /\ result[1].marketContext = Rat(75, 10)

C9_Witness == Scored /\ ScenarioD(property)

\* the lifestyle formula in tenths of a point
LifestyleTenths(p) ==
  LET noise == IF Present(p.noiseLevel)
               THEN (IF (5 - p.noiseLevel[1]) * 8 < -30 THEN -30 ELSE (5 - p.noiseLevel[1]) * 8)
               ELSE 0
      pet == IF p.petFriendly = Some(TRUE) THEN 10 ELSE 0
      sum == 50 + noise + pet
  IN  IF sum < 10 THEN 10 ELSE IF sum > 100 THEN 100 ELSE sum

\* C10: lifestyle = clamp(5 + (noiseLevel present ? max(-3, (5 - noiseLevel)
\* * 0.8) : 0) + (petFriendly = true ? 1 : 0), 1, 10), at full precision and
\* as reported; petFriendly = true with noiseLevel = 1 gives 9.2.
C10_LifestyleFormula ==
  Scored =>
    /\ calculateLifestyle(property) = Rat(LifestyleTenths(property), 10)
    /\ result[1].lifestyle = Rat(LifestyleTenths(property), 10)
    /\ (property.petFriendly = Some(TRUE) /\ property.noiseLevel = Some(1)) =>
         result[1].lifestyle = Rat(92, 10)

\* Scenario E has been scored
C10_Witness ==
  Scored /\ property.petFriendly = Some(TRUE) /\ property.noiseLevel = Some(1)

----------------------------------------------------------------------------
(* C11: schools                                                            *)

\* the rating table of the school districts
SchoolRating(d) ==
  CASE d \in {"District 1", "Bronx Science Zone"} -> 9
    [] d \in {"District 2", "District 15", "Brooklyn Tech Zone"} -> 8
    [] d = "District 3" -> 7
    [] d = "District 20" -> 6
    [] d \in {"District 22", "Other"} -> 5
    [] d = "Stuyvesant HS Zone" -> 10

\* C11: schools is the table rating of schoolDistrict for every key of the
\* table and 5 for every other string, the empty string included.  A string
\* that names a property every object inherits ('constructor', 'toString')
\* is looked up successfully by the code and yields NaN, so this is violated.
C11_SchoolsLookup ==
  Scored =>
    /\ subScores(property).schools = result[1].schools
    /\ result[1].schools =
         IF property.schoolDistrict \in DOMAIN SCHOOL_DISTRICT_SCORES
         THEN Num(SchoolRating(property.schoolDistrict))
         ELSE Num(5)

----------------------------------------------------------------------------
(* C13: presentation helpers                                               *)

\* the category of a score by the thresholds 8, 6.5 and 5
Category(x) ==
  IF ~IsFinite(x) THEN "poor"
  ELSE IF x.n >= 8 * x.d THEN "excellent"
  ELSE IF 2 * x.n >= 13 * x.d THEN "good"
  ELSE IF x.n >= 5 * x.d THEN "average"
  ELSE "poor"

ColorOf(c) ==
  CASE c = "excellent" -> "score-excellent"
    [] c = "good" -> "score-good"
    [] c = "average" -> "score-average"
    [] c = "poor" -> "score-poor"

LabelOf(c) ==
  CASE c = "excellent" -> "Excellent"
    [] c = "good" -> "Good"
    [] c = "average" -> "Average"
    [] c = "poor" -> "Poor"

\* C13: getScoreColor returns excellent iff score >= 8, good iff 6.5 <= score
\* < 8, average iff 5 <= score < 6.5 and poor otherwise, and getScoreLabel
\* returns the label of the same category.
C13_HelpersAgree ==
  Present(shown) =>
    /\ shown[1].color = ColorOf(Category(cardScore[1]))
    /\ shown[1].label = LabelOf(Category(cardScore[1]))

\* the helpers have been applied to 6.5, the lowest good score
C13_Witness ==
  Present(shown) /\ cardScore = Some(Rat(65, 10)) /\ shown[1].label = "Good"

----------------------------------------------------------------------------
(* C14: dark-mode preference                                               *)

\* the header is mounted and its effect has run
Mounted == mounted = "yes"

\* C14: with no stored theme the theme after mount is dark; after a toggle
\* and a remount the theme is the value the last toggle chose; after mount
\* the theme is dark exactly when the document root has the dark class; and
\* every toggleTheme flips the theme between dark and light and writes the
\* new value to localStorage.
C14_ThemeOnMount ==
  Mounted =>
    /\ storedTheme = None => theme = Some("dark")
    /\ Present(chosen) => theme = chosen
    /\ (theme = Some("dark")) <=> rootDark

C14_ToggleFlips ==
  last' = "toggle" =>
    /\ theme' # theme
    /\ theme'[1] \in {"dark", "light"}
    /\ theme[1] \in {"dark", "light"} => theme'[1] = CHOOSE t \in {"dark", "light"} : t # theme[1]
    /\ storedTheme' = theme'

C14_DarkModePreference == [](C14_ThemeOnMount) /\ [][C14_ToggleFlips]_vars

\* the header was mounted again after a toggle chose light, on a document
\* that had the dark class
C14_Witness ==
  Mounted /\ last = "effect" /\ chosen = Some("light") /\ theme = Some("light")

----------------------------------------------------------------------------
(* C15: market-time bonus                                                  *)

\* clamp(1 + (daysOnMarket - 30)/100, 1.0, 1.5), or 1.0 when absent
BonusByClamp(p) ==
  IF Present(p.daysOnMarket)
  THEN Clamp(Add(Num(1), Rat(p.daysOnMarket[1] - 30, 100)), Num(1), Rat(3, 2))
  ELSE Num(1)

\* C15: the market-time bonus is clamp(1 + (daysOnMarket - 30)/100, 1.0,
\* 1.5) when daysOnMarket is present and 1.0 when absent, so it is between
\* 1.0 and 1.5 and a short time on market never lowers priceValue relative
\* to an absent daysOnMarket.
\* The code has no lower clamp: daysOnMarket = 1 multiplies by 0.71.
C15_MarketTimeBonus ==
  (Scored /\ property.squareFeet > 0) =>
    /\ marketTimeBonus(property) = BonusByClamp(property)
    /\ Le(Num(1), marketTimeBonus(property))
    /\ Le(marketTimeBonus(property), Rat(3, 2))
    /\ Le(Round1(calculateEnhancedPriceValue([property EXCEPT !.daysOnMarket = None])),
          result[1].priceValue)

----------------------------------------------------------------------------
(* C16: location blend                                                     *)

\* the blend with only the three 0-100 inputs divided by 10
BlendByTerm(p) ==
  LET walk == Div(Num(OrNum(p.walkScore, 50)), Num(10))
      transit == Div(Num(OrNum(p.transitScore, 50)), Num(10))
      bike == Div(Num(OrNum(p.bikeScore, 50)), Num(10))
      safety == Num(OrNum(p.safetyScore, 6))
  IN  Clamp(Add(Add(Add(Add(Add(Mul(Rat(3, 10), walk), Mul(Rat(3, 10), transit)),
                            Mul(Rat(1, 10), bike)),
                        Mul(Rat(1, 10), parkProximity(p))),
                    Mul(Rat(1, 10), subwayProximity(p))),
                Mul(Rat(1, 10), safety)),
            Num(1), Num(10))

\* C16: location = clamp(0.3*(walkScore/10) + 0.3*(transitScore/10) +
\* 0.1*(bikeScore/10) + 0.1*parkProximity + 0.1*subwayProximity +
\* 0.1*safetyScore, 1, 10), the park, subway and safety terms at their full
\* weight.
\* The code divides the whole sum by 10, the three 0-10 terms included.
C16_LocationBlend ==
  Scored => result[1].location = Round1(BlendByTerm(property))

----------------------------------------------------------------------------
(* C17: proximity scores                                                   *)

\* clamp(10 - k*m, 0, 10) for a supplied m, 5 when absent; k = kn/kd
ProximityByClamp(minutes, kn, kd) ==
  IF Present(minutes)
  THEN Clamp(Sub(Num(10), Rat(kn * minutes[1], kd)), Num(0), Num(10))
  ELSE Num(5)

\* C17: a supplied proximityToPark m >= 0 contributes clamp(10 - 0.5*m, 0,
\* 10) and a supplied proximityToSubway m >= 0 contributes clamp(10 - m, 0,
\* 10), m = 0 giving 10; 5 is used only when the field is absent.
\* The code tests the field for truthiness: 0 minutes gives 5.
C17_ProximityScores ==
  Scored =>
    /\ parkProximity(property) = ProximityByClamp(property.proximityToPark, 1, 2)
    /\ subwayProximity(property) = ProximityByClamp(property.proximityToSubway, 1, 1)

----------------------------------------------------------------------------
(* C18: neighborhood proxy                                                 *)

\* C18: neighborhood = clamp(bikeScore/10, 1, 10) for every supplied
\* bikeScore in 0..100, and 5 only when bikeScore is absent.
\* The code takes bikeScore || 50: a supplied 0 gives 5.
C18_NeighborhoodProxy ==
  Scored =>
    result[1].neighborhood =
      IF Present(property.bikeScore)
      THEN Round1(Clamp(Rat(property.bikeScore[1], 10), Num(1), Num(10)))
      ELSE Num(5)

----------------------------------------------------------------------------
(* C19: days-on-market tiering                                             *)

\* +0.5 above 90 days, +0.3 below 7 days, nothing for 7..90
DaysTier(d) == IF d > 90 THEN Rat(1, 2) ELSE IF d < 7 THEN Rat(3, 10) ELSE Num(0)

\* marketContext with t as its days-on-market term
MarketContextWith(p, t) ==
  LET rest == IF Present(p.priceHistoryDetails)
              THEN LET details == p.priceHistoryDetails[1]
                   IN  Add(Add(percentageChangeImpact(details), timeContextImpact(details)),
                           eventsImpact(details))
              ELSE historyBonus(p)
  IN  Round1(Clamp(Add(Add(Add(Num(5), rest), t), assessmentBonus(p)), Num(1), Num(10)))

\* C19: whenever daysOnMarket is supplied, in simple and in rich mode,
\* marketContext receives +0.5 if daysOnMarket > 90, +0.3 if daysOnMarket <
\* 7 (0 included) and nothing for 7..90.
\* The code tests daysOnMarket for truthiness: 0 days receives nothing.
C19_DaysOnMarketTier ==
  (Scored /\ Present(property.daysOnMarket)) =>
    /\ daysOnMarketFactor(property) = DaysTier(property.daysOnMarket[1])
    /\ result[1].marketContext =
         MarketContextWith(property, DaysTier(property.daysOnMarket[1]))

----------------------------------------------------------------------------
(* C20: rich-mode percentage tiers                                         *)

\* the adjustments whose condition p satisfies
PercentTiers(pc) ==
  (IF pc < -10 THEN {Num(2)} ELSE {})
  \cup (IF -10 <= pc /\ pc < -5 THEN {Num(1)} ELSE {})
  \cup (IF pc > 15 THEN {Rat(-3, 2)} ELSE {})
  \cup (IF 5 < pc /\ pc <= 15 THEN {Rat(-1, 2)} ELSE {})
  \cup (IF -5 <= pc /\ pc <= 5 THEN {Num(0)} ELSE {})

\* the listing has priceHistoryDetails with a percentageChange
HasPercentage ==
  Present(property.priceHistoryDetails)
    /\ Present(property.priceHistoryDetails[1].percentageChange)

\* C20: when priceHistoryDetails.percentageChange p is present, exactly one
\* adjustment is added to marketContext: +2.0 if p < -10, +1.0 if -10 <= p <
\* -5, -1.5 if p > 15, -0.5 if 5 < p <= 15 and 0 for -5 <= p <= 5.
C20_PercentageTiers ==
  (Scored /\ HasPercentage) =>
    LET details == property.priceHistoryDetails[1]
        pc == details.percentageChange[1]
    IN  /\ PercentTiers(pc) = {percentageChangeImpact(details)}
        /\ result[1].marketContext =
             Round1(Clamp(Add(Add(Add(Add(Num(5), percentageChangeImpact(details)),
                                      timeContextImpact(details)),
                                  daysOnMarketFactor(property)),
                              assessmentBonus(property)),
                          Num(1), Num(10)))
        /\ \A t \in PercentTiers(pc) :
             (details.timeContext = None /\ property.daysOnMarket = None) =>
               result[1].marketContext = Round1(Clamp(Add(Num(5), t), Num(1), Num(10)))

\* a listing whose change is exactly -10 was scored and received +1.0
C20_Witness ==
  /\ Scored
  /\ HasPercentage
  /\ property.priceHistoryDetails[1].percentageChange = Some(-10)
  /\ property.priceHistoryDetails[1].timeContext = None
  /\ property.daysOnMarket = None
  /\ result[1].marketContext = Num(6)

----------------------------------------------------------------------------
(* C21: building sub-score                                                 *)

\* clamp(10 - buildingAge/15, 1, 10)
AgeByClamp(age) == Clamp(Sub(Num(10), Rat(age, 15)), Num(1), Num(10))

\* the table value of a building type, in tenths
TypeRating(t) ==
  CASE t = "prewar" -> 85 [] t = "postwar" -> 65 [] t = "modern" -> 80
    [] t = "luxury" -> 95 [] t = "historic" -> 80 [] t = "other" -> 60

\* 0.8 below a ratio of 0.2, 0.9 above 0.8, 1.0 between, for total > 0
FloorMultiplier(floor, total) ==
  IF 5 * floor < total THEN Rat(8, 10)
  ELSE IF 5 * floor > 4 * total THEN Rat(9, 10)
  ELSE Num(1)

\* the building type is absent or a key of the table
HasTableBuildingType ==
  property.buildingType = None \/ property.buildingType[1] \in DOMAIN BUILDING_TYPE_SCORES

\* C21: building = clamp((ageScore*0.5 + typeScore*0.5) * floorMultiplier,
\* 1, 10) with ageScore = clamp(10 - buildingAge/15, 1, 10), typeScore the
\* table value ('other' when absent) and floorMultiplier 0.8 below a ratio of
\* 0.2, 0.9 above 0.8 and 1.0 otherwise; the result is finite for every
\* totalFloors >= 0.
C21_BuildingFormula ==
  (Scored /\ HasTableBuildingType) =>
    LET type == IF Present(property.buildingType) THEN property.buildingType[1] ELSE "other"
        blend == Add(Mul(AgeByClamp(property.buildingAge), Rat(1, 2)),
                     Mul(Rat(TypeRating(type), 10), Rat(1, 2)))
    IN  /\ InRange(result[1].building)
        /\ property.totalFloors > 0 =>
             result[1].building =
               Round1(Clamp(Mul(blend, FloorMultiplier(property.floor, property.totalFloors)),
                            Num(1), Num(10)))

\* a 2nd-floor unit of 10 (ratio exactly 0.2) was scored as a middle floor,
\* and so was a listing with no floor count
C21_Witness ==
  /\ Scored
  /\ property.buildingType = Some("other")
  /\ property.buildingAge = 30
  /\ \/ property.floor = 2 /\ property.totalFloors = 10
     \/ property.floor = 0 /\ property.totalFloors = 0
  /\ result[1].building = Num(7)

----------------------------------------------------------------------------
(* C22: monthly cost and property taxes                                    *)

\* the same listing with the taxes folded into the monthly fees
TaxesAsFees(p) ==
  [p EXCEPT !.monthlyFees = @ + (IF Present(p.propertyTaxes) THEN p.propertyTaxes[1] \div 12 ELSE 0),
            !.propertyTaxes = None]

\* C22: the monthly-cost score is computed from monthlyFees +
\* propertyTaxes/12, so a listing with propertyTaxes = 12*t and monthlyFees =
\* f scores the same as one with no taxes and monthlyFees = f + t.
\* The code never reads propertyTaxes.
C22_TaxesInMonthlyCost ==
  Scored =>
    /\ monthlyFeesScore(property) = monthlyFeesScore(TaxesAsFees(property))
    /\ result[1].priceValue = Round1(calculateEnhancedPriceValue(TaxesAsFees(property)))

----------------------------------------------------------------------------
(* C23: amenities sub-score                                                *)

\* the home features of a listing, absent treated as empty
FeaturesOf(p) == IF Present(p.homeFeatures) THEN p.homeFeatures[1] ELSE <<>>

\* the number of entries of a list that are premium features
PremiumCount(fs) ==
  Cardinality({i \in 1..Len(fs) :
                 fs[i] \in {"Fireplace", "Private outdoor space", "Washer/dryer", "Central air"}})

\* clamp(clamp(a + 2, 1, 8) + 0.5*h + 0.3*q, 1, 10) from the three counts
AmenitiesByCount(a, h, q) ==
  Clamp(Add(Clamp(Num(a + 2), Num(1), Num(8)), Rat(5 * h + 3 * q, 10)), Num(1), Num(10))

\* C23: amenities = clamp(clamp(amenities.length + 2, 1, 8) + 0.5 *
\* homeFeatures.length + 0.3 * (number of premium home features), 1, 10),
\* homeFeatures absent treated as empty; adding an amenity or a home feature
\* never lowers it, and building amenities alone never raise it above 8.
C23_AmenitiesFormula ==
  Scored =>
    LET fs == FeaturesOf(property)
    IN  /\ result[1].amenities =
             Round1(AmenitiesByCount(Len(property.amenities), Len(fs), PremiumCount(fs)))
        /\ Le(result[1].amenities,
              Round1(calculateEnhancedAmenities(
                       [property EXCEPT !.amenities = Append(@, "Parking")])))
        /\ \A f \in {"Dishwasher", "Fireplace"} :
             Le(result[1].amenities,
                Round1(calculateEnhancedAmenities(
                         [property EXCEPT !.homeFeatures = Some(Append(fs, f))])))
        /\ Len(fs) = 0 => Le(result[1].amenities, Num(8))

\* a listing with eight amenities and no home features was scored at the
\* base cap
C23_Witness ==
  /\ Scored
  /\ Len(property.amenities) = 8
  /\ property.homeFeatures = None
  /\ result[1].amenities = Num(8)

----------------------------------------------------------------------------
(* C24 - C27: the scrape function                                          *)

\* the handler has answered a request that was not OPTIONS
Answered == handler = "done" /\ Present(response) /\ Present(response[1].body)

\* the handler has sent extracted data
Extracted == Answered /\ response[1].body[1].success

\* the data sent
SentData == response[1].body[1].data[1]

\* whether a stage is in the log
Ran(stage) == \E i \in 1..Len(ran) : ran[i] = stage

\* the OpenAI step ran and failed
OpenAIFailed ==
  \E i \in 1..Len(ran) :
    ran[i] \in {"openai:threw", "openai:status", "openai:noJson", "openai:parseError"}

\* C24: every amenities list the extraction function hands on, from the
\* regex path or from the OpenAI path, contains no duplicate entries.
\* The OpenAI path passes the answer's array on as it is.
C24_AmenitiesDistinct ==
  Extracted =>
    \A i, j \in 1..Len(SentData.amenities) :
      i # j => SentData.amenities[i] # SentData.amenities[j]

\* C25: every PropertyData returned by extractPropertyData, on the OpenAI
\* path and on the regex path, has buildingType in {prewar, postwar, modern,
\* luxury, historic, other}.
\* The OpenAI path returns early and keeps any non-empty string other than
\* 'Other', and keeps 'Other' when the age is not positive.
C25_ValidBuildingType ==
  Extracted =>
    SentData.buildingType \in {"prewar", "postwar", "modern", "luxury", "historic", "other"}

\* C26: the direct fetch is tried first; Firecrawl is called only if the
\* direct fetch failed and FIRECRAWL_API_KEY is set; the answer is {success:
\* true, data} with status 200 iff HTML was obtained and extraction did not
\* throw, and otherwise {success: false, error} with status 500; and the
\* handler always answers.
C26_Protocol ==
  /\ ran # <<>> => ran[1] = "direct"
  /\ Ran("firecrawl") =>
       /\ FIRECRAWL_API_KEY
       /\ ran[2] = "firecrawl"
       /\ html # Some("direct")
  /\ Answered =>
       /\ response[1].status = (IF response[1].body[1].success THEN 200 ELSE 500)
       /\ response[1].body[1].success <=> Present(response[1].body[1].data)
       /\ response[1].body[1].success <=>
            (Present(html) /\ (Ran("regex") \/ Ran("openai:answer")))
       /\ ~response[1].body[1].success =>
            \/ ran = <<>>
            \/ html = None /\ (~FIRECRAWL_API_KEY \/ Ran("firecrawl"))
            \/ Present(html) /\ requestUrl = None
  /\ handler = "done" <=> Present(response)

C27_ExtractionChain ==
  /\ (Ran("openai:answer") \/ OpenAIFailed) => OPENAI_API_KEY
  /\ Ran("openai:answer") => ~Ran("regex") /\ Extracted
  /\ (OpenAIFailed /\ handler # "done") => handler = "regex"
  /\ (OpenAIFailed /\ handler = "done") =>
       Extracted /\ Ran("regex") /\ SentData = regexExtraction(listing[1])
  /\ (Extracted /\ ~OPENAI_API_KEY) =>
       Ran("regex") /\ SentData = regexExtraction(listing[1])
  /\ (Extracted /\ OPENAI_API_KEY) => (Ran("openai:answer") \/ OpenAIFailed)

\* the OpenAI answer held no JSON and the regex result was sent
C27_Witness ==
  /\ Extracted
  /\ Ran("openai:noJson")
  /\ Ran("regex")
  /\ SentData.buildingType = "luxury"

----------------------------------------------------------------------------
(* C28: URL auto-fill outcome handling                                     *)

BlankUrls == {"", "  "}

StreetEasyUrls == {" https://streeteasy.com/building/a/1f "}

Submitted == requests' = requests + 1

Settled == inFlight' = inFlight - 1

\* C28: a submit with a blank URL or one without 'streeteasy.com' issues no
\* request and leaves isLoading false, any other submit issues one; a
\* settled request calls onDataExtracted exactly when it succeeded, leaves
\* the form data alone otherwise, and always ends with isLoading false; no
\* other step calls onDataExtracted
C28_OutcomeHandling ==
  [][ /\ Submitted =>
           IF url \in BlankUrls \/ url \notin StreetEasyUrls
           THEN inFlight' = inFlight /\ ~isLoading /\ ~isLoading'
           ELSE inFlight' = inFlight + 1
      /\ Settled =>
           /\ (extracted' = extracted + 1) <=> (last' = "success")
           /\ last' # "success" => extracted' = extracted /\ formData' = formData
           /\ ~isLoading'
      /\ extracted' # extracted => Settled
    ]_vars

\* a request that came back with success = false, on a form edited by hand
C28_Witness ==
  /\ last = "failure"
  /\ formData = Some("edited")
  /\ extracted = 0
  /\ ~isLoading

----------------------------------------------------------------------------
(* C29: result pairing on the page                                         *)

\* the pairs of a record the form can submit and its scores
ScoredPairs ==
  {<<Some(p), Some(calculatePropertyScore(p, DEFAULT_WEIGHTS))>> : p \in Submissions}

Paired == <<currentProperty, currentScores>> \in ScoredPairs \cup {<<None, None>>}

\* C29: the page's property and scores are both null or both set, the scores
\* being those of that property, whatever handlers ran and however the
\* delays of two submissions overlapped; and a submission that is waiting
\* for its timer is followed by a state where isCalculating is false
C29_ResultPairing ==
  /\ [](Paired)
  /\ (timers # <<>>) ~> (~isCalculating)

\* the first of two overlapping submissions is shown while the second waits
C29_Witness ==
  /\ submissions = 2
  /\ Len(timers) = 1
  /\ Present(currentProperty)
  /\ currentProperty[1] # timers[1]
  /\ ~isCalculating

----------------------------------------------------------------------------
(* C30: rich mode shadows simple mode                                      *)

\* the simple-mode bonus: decreased +1.0, increased -0.5, stable or absent 0
SimpleBonus(e) ==
  IF e = Some("decreased") THEN Num(1)
  ELSE IF e = Some("increased") THEN Rat(-1, 2)
  ELSE Num(0)

\* marketContext built on the baseline 5 from a price-history term
MarketContextFrom(p, term) ==
  Round1(Clamp(Add(Add(Add(Num(5), term), daysOnMarketFactor(p)), assessmentBonus(p)),
               Num(1), Num(10)))

\* C30: when priceHistoryDetails is present, even with no percentageChange,
\* timeContext or events, marketContext is made of the details' terms alone
\* and is the same for every value of priceHistory; the simple-mode bonus is
\* applied only when priceHistoryDetails is absent
C30_RichShadowsSimple ==
  Scored =>
    IF Present(property.priceHistoryDetails)
    THEN LET details == property.priceHistoryDetails[1]
             terms == Add(Add(percentageChangeImpact(details), timeContextImpact(details)),
                          eventsImpact(details))
         IN  /\ result[1].marketContext = MarketContextFrom(property, terms)
             /\ \A e \in PriceHistories :
                  Round1(calculateMarketContext([property EXCEPT !.priceHistory = e]))
                    = result[1].marketContext
    ELSE result[1].marketContext =
           MarketContextFrom(property, SimpleBonus(property.priceHistory))

\* a price that decreased, scored with an empty details object
C30_Witness ==
  /\ Scored
  /\ property.priceHistoryDetails = Some(Details(None, None, <<>>))
  /\ property.priceHistory = Some("decreased")
  /\ property.daysOnMarket = None
  /\ result[1].marketContext = Num(5)

====
